---- MODULE Spec2Model ----
(***************************************************************************)
(* Model of the Model 3D exporter (io_export_m3d.py, write_m3d).           *)
(*                                                                         *)
(* Numbers.  A Python number is a record [sg, mag, fl]: sign (1 or -1),    *)
(* magnitude and a flag telling a float (TRUE) from an int (FALSE).  The   *)
(* sign is kept apart from the magnitude so that the float -0.0 is a value *)
(* of its own: [sg |-> -1, mag |-> 0, fl |-> TRUE].  The magnitude of a    *)
(* coordinate counts ticks of 10^-digits (the rounding precision of the    *)
(* run); the magnitude of an int is the int itself.                        *)
(***************************************************************************)
EXTENDS Integers, Sequences, FiniteSets, TLC

VARIABLES
    \* ---- one pooled table (uniquedict / dict2list) ----
    pool,       \* the dict: items in insertion order, each [h |-> key, v |-> <<i, e>>]
    ret,        \* index returned by the last uniquedict call (-1: no call yet)
    arg,        \* <<e>> for the value of the last uniquedict call, <<>> before
    first,      \* history: set of <<e, i>>, i the index returned the first time e was interned
    ncalls,     \* number of uniquedict calls made
    plist,      \* the list made by dict2list
    ppc,        \* "interning" | "converted"
    \* ---- index width (idxsize / addidx) ----
    cnt,        \* number of entries of the table
    fmt,        \* width code chosen by idxsize (-1: not chosen yet)
    idx,        \* index handed to addidx
    enc,        \* bytes returned by addidx
    ipc,        \* "count" | "selected" | "written"
    \* ---- quality tier and rounding digits ----
    req,              \* int(use_quality) as requested
    npoly,            \* polygons counted over the mesh objects
    use_gridcompress, \* grid compression flag
    use_quality,      \* effective quality tier (-1: not decided yet)
    digits,           \* rounding digits (0: not decided yet)
    qpc,              \* "start" | "quality" | "digits"
    \* ---- skin of the mesh vertices ----
    groups,       \* v.groups of the last vertex: sequence of [bone, w]
    skin,         \* the skin list built for the last vertex, flat: bone, weight, bone, weight, ...
    sref,         \* s of the last vertex: index into skins, or -1
    si,           \* index of the largest weight; kept from vertex to vertex (-1: unbound)
    skins,        \* the skins dict
    nb_m,         \* maximum number of bone weights per vertex
    use_skeleton, \* skeleton still enabled
    nskinned,     \* number of vertices processed
    \* ---- vertex table: pooling, grid compression, emission ----
    scale_req,    \* use_scale as passed in
    use_scale,    \* use_scale as the run goes on
    vdict,        \* the verts dict
    verts,        \* the verts list (after dict2list)
    sfac,         \* s, the grid compression factor (<<>>: not computed)
    use_ascii,    \* textual (TRUE) or binary (FALSE) output
    vrts,         \* the emitted vertex table: per vertex the four emitted numbers
    declared,     \* the scale written to the output (<<>>: nothing written)
    gpc,          \* "mesh" | "lists" | "scaled" | "written"
    \* ---- pooled tables shared by the passes ----
    cmap,             \* the cmap dict
    strs,             \* the strs dict
    \* ---- the scene ----
    objects,          \* the exported objects: armatures and meshes
    frame_current,    \* scene.frame_current
    objects0,         \* the objects as they were when the export began
    frame0,           \* scene.frame_current as it was when the export began
    \* ---- bind-pose skeleton ----
    bones,            \* the bones dict: items [name, idx, a, n, pos, ori] in insertion order
    bidx,             \* idx, the number handed to the next bone
    use_animation,    \* animation still enabled
    reports,          \* the messages handed to report(), in order
    opos,             \* number of objects the armature loop has gone through
    bpc,              \* "armature" | "mesh"
    \* ---- materials ----
    use_materials,    \* materials are exported
    refmats,          \* the materials the polygons refer to, in the order of first reference
    refpos,           \* number of referenced materials gone through
    props,            \* props of the last material gone through: pairs <<key, value>> in dict order
    kd,               \* d, the alpha of the diffuse colour, as <<d>>; kept from material to material (<<>>: unbound)
    materials,        \* the materials list: [name, props]
    \* ---- pose state, actions and frames ----
    use_fps,          \* frames per second
    use_markers,      \* actions are taken from the timeline markers
    markers,          \* scene.timeline_markers: [name, frame]
    bpy_actions,      \* bpy.data.actions: [name, st, et], the frame range of each
    frame_start,      \* scene.frame_start
    frame_end,        \* scene.frame_end
    oldframe,         \* the saved scene frame
    oldpose,          \* the saved pose positions, by object index
    oldaction,        \* the saved action as <<action>> (<<>>: None)
    acts,             \* the collected actions: [name, index, st, et]
    apos,             \* number of actions of acts gone through
    frame,            \* the frame the loop of the action is at
    a2,               \* a[2] of the action, moved to its first recorded frame
    lastpose,         \* last recorded pose of each bone, in the order of the bones dict: [pos, ori]
    frames,           \* the recorded frames of the action: [t, changed]
    changed,          \* the changed list of the frame sampled last: [idx, pos, ori]
    sampled,          \* the pose sampled last of each pose bone: [idx, pos, ori]
    lf,               \* the last recorded frame
    fi_m,             \* largest number of changed bones in a frame
    actions,          \* the actions list: [name, dur, frames]
    hist,             \* the poses given to the frames of the action so far
    apc,              \* "start" | "saved" | "ready" | "actions" | "frames" | "restored" | "raised"
    \* ---- mesh lists and the binary file ----
    use_normals,      \* normals are exported
    use_uvs,          \* UV coordinates are exported
    use_colors,       \* vertex colours are exported
    use_strmcompress, \* the chunk stream is compressed
    allow_unnormalized_uvs,\* UVs outside 0..1 are written as they are
    use_name,         \* the name of the model (empty: the name of the first mesh object)
    use_author,       \* the author of the model, LOGNAME of the environment when not given
    tmaps,            \* the tmaps dict
    faces,            \* the faces list: [m, v, t, n]
    lists,            \* the lists made of the dicts: [cmap, strs, tmaps, bones, skins]
    buf,              \* the chunk stream with its end marker, before compression
    file,             \* the bytes written to the file
    \* ---- the timestamp of one recorded frame ----
    fps_req,          \* the use_fps option as it is given
    span,             \* frame - a[2] of a recorded frame
    stamp,            \* its timestamp as <<t>> (<<>>: none yet)
    tpc               \* "fps" | "span" | "done"

poolVars  == <<pool, ret, arg, first, ncalls, plist, ppc>>
idxVars   == <<cnt, fmt, idx, enc, ipc>>
qualVars  == <<req, npoly, use_gridcompress, use_quality, digits, qpc>>
skinVars  == <<groups, skin, sref, si, skins, nb_m, use_skeleton, nskinned>>
gridVars  == <<scale_req, use_scale, vdict, verts, sfac, use_ascii, vrts, declared, gpc>>
tabVars   == <<cmap, strs>>
sceneVars == <<objects, frame_current, objects0, frame0>>
boneVars  == <<bones, bidx, use_animation, reports, opos, bpc>>
matVars   == <<use_materials, refmats, refpos, props, kd, materials>>
animVars  == <<use_fps, use_markers, markers, bpy_actions, frame_start, frame_end, oldframe, oldpose, oldaction, acts, apos, frame, a2, lastpose, frames, changed, sampled, lf, fi_m, actions, hist, apc>>
fileVars  == <<use_normals, use_uvs, use_colors, use_strmcompress, allow_unnormalized_uvs, use_name, use_author, tmaps, faces, lists, buf, file>>
stampVars == <<fps_req, span, stamp, tpc>>

----------------------------------------------------------------------------
(* Numbers *)

F(sg, mag) == [sg |-> sg, mag |-> mag, fl |-> TRUE]
I(n) == [sg |-> IF n < 0 THEN -1 ELSE 1, mag |-> IF n < 0 THEN -n ELSE n, fl |-> FALSE]
Val(a) == a.sg * a.mag
PosZero == F(1, 0)
NegZero == F(-1, 0)

----------------------------------------------------------------------------
(* Pooled tables *)

MaxCalls == 4

\* str(e) of a list of numbers: one group of tokens per element.  The sign
\* is part of the text ("-0.0" differs from "0.0") and so is the int/float
\* distinction ("1" differs from "1.0").
str(e) ==
    [k \in 1..(3 * Len(e)) |->
        LET a == e[(k + 2) \div 3]
        IN  IF k % 3 = 1 THEN a.sg + 1
            ELSE IF k % 3 = 2 THEN a.mag
            ELSE IF a.fl THEN 1 ELSE 0]

\* hash(): a deterministic string hash into 0..HashMod-1, combining the two
\* halves of the string; equal strings have equal hashes.
HashMod == 1000003
RECURSIVE hashrange(_, _, _)
hashrange(t, a, b) ==
    IF a = b THEN (t[a] + 7) % HashMod
    ELSE LET m == (a + b) \div 2
         IN  (hashrange(t, a, m) * 31 + hashrange(t, m + 1, b) * 17 + (b - a)) % HashMod
hash(t) == IF Len(t) = 0 THEN 17 ELSE hashrange(t, 1, Len(t))

\* position of key h among the items of dict l, 0 when absent
RECURSIVE FindKey(_, _, _)
FindKey(l, h, k) ==
    IF k > Len(l) THEN 0
    ELSE IF l[k].h = h THEN k
    ELSE FindKey(l, h, k + 1)

uniquedict_always_new(l, e) ==
    [i |-> Len(l), l |-> Append(l, [h |-> hash(str(e)), v |-> <<Len(l), e>>])]

\* uniquedict(l, e): returns the index i and the dict after the call
uniquedict(l, e) ==
    LET h == hash(str(e))
        k == FindKey(l, h, 1)
    IN  IF k # 0
        THEN [i |-> l[k].v[1], l |-> l]
        ELSE [i |-> Len(l), l |-> Append(l, [h |-> h, v |-> <<Len(l), e>>])]

\* Python's list.insert(pos, x) for pos >= 0
ListInsert(r, pos, x) ==
    IF pos >= Len(r) THEN Append(r, x)
    ELSE SubSeq(r, 1, pos) \o <<x>> \o SubSeq(r, pos + 1, Len(r))

RECURSIVE dict2list_from(_, _, _)
dict2list_from(l, k, r) ==
    IF k > Len(l) THEN r
    ELSE dict2list_from(l, k + 1, ListInsert(r, l[k].v[1], l[k].v[2]))

RECURSIVE dict2list_front_from(_, _, _)
dict2list_front_from(l, k, r) ==
    IF k > Len(l) THEN r
    ELSE dict2list_front_from(l, k + 1, ListInsert(r, 0, l[k].v[2]))

dict2list_front(l) == dict2list_front_from(l, 1, <<>>)

dict2list(l) == dict2list_from(l, 1, <<>>)

\* the values interned by the pooled-table specification: UV pairs
PoolFloats == {PosZero, NegZero, F(1, 5)}
PoolValues == {<<u, v>> : u \in PoolFloats, v \in PoolFloats}

PoolIdle ==
    /\ pool = <<>>
    /\ ret = -1
    /\ arg = <<>>
    /\ first = {}
    /\ ncalls = 0
    /\ plist = <<>>
    /\ ppc = "interning"

Intern(e) ==
    /\ ppc = "interning"
    /\ ncalls < MaxCalls
    /\ LET u == uniquedict(pool, e)
       IN  /\ pool' = u.l
           /\ ret' = u.i
           /\ first' = IF \E p \in first : p[1] = e THEN first
                       ELSE first \cup {<<e, u.i>>}
    /\ arg' = <<e>>
    /\ ncalls' = ncalls + 1
    /\ UNCHANGED <<plist, ppc>>

Convert ==
    /\ ppc = "interning"
    /\ plist' = dict2list(pool)
    /\ ppc' = "converted"
    /\ UNCHANGED <<pool, ret, arg, first, ncalls>>

----------------------------------------------------------------------------
(* Index width *)

CountDelta == 2
SmallCounts == 3

Counts ==
    (0..SmallCounts) \cup ((254 - CountDelta)..(254 + CountDelta))
        \cup ((65534 - CountDelta)..(65534 + CountDelta))

idxsize_le(c) ==
    IF c = 0 THEN 3
    ELSE IF c <= 254 THEN 0
    ELSE IF c <= 65534 THEN 1
    ELSE 2

idxsize(c) ==
    IF c = 0 THEN 3
    ELSE IF c < 254 THEN 0
    ELSE IF c < 65534 THEN 1
    ELSE 2

\* struct.pack raises struct.error for a value out of the format's range
PackError == <<-1>>

packB(n) == IF n >= 0 /\ n < 256 THEN <<n>> ELSE PackError
packH(n) == IF n >= 0 /\ n < 65536 THEN <<n % 256, n \div 256>> ELSE PackError

\* pack("<I", hi * 65536 + lo): the value is given as two 16-bit halves,
\* since 4294967296 + idx is beyond the integers of the model checker
packI(hi, lo) ==
    IF hi >= 0 /\ hi < 65536 /\ lo >= 0 /\ lo < 65536
    THEN <<lo % 256, lo \div 256, hi % 256, hi \div 256>>
    ELSE PackError

addidx_off(f, n) ==
    IF f = 0 THEN packB(IF n < 0 THEN 255 + n ELSE n)
    ELSE IF f = 1 THEN packH(IF n < 0 THEN 65535 + n ELSE n)
    ELSE IF f = 2
         THEN IF n < 0
              THEN packI(65535 - ((-n - 1) \div 65536), 65534 - ((-n - 1) % 65536))
              ELSE packI(n \div 65536, n % 65536)
    ELSE <<>>

addidx(f, n) ==
    IF f = 0 THEN packB(IF n < 0 THEN 256 + n ELSE n)
    ELSE IF f = 1 THEN packH(IF n < 0 THEN 65536 + n ELSE n)
    ELSE IF f = 2
         THEN IF n < 0
              \* 4294967296 + n
              THEN packI(65535 - ((-n - 1) \div 65536), 65535 - ((-n - 1) % 65536))
              ELSE packI(n \div 65536, n % 65536)
    ELSE <<>>

\* indices written for a table of c entries: the sentinels and the valid
\* indices next to the width boundaries
IndexCands(c) ==
    {-1, -2} \cup ({0, 1, 252, 253, 254, 255, 65532, 65533, 65534, 65535, c - 1}
                    \cap (0..(c - 1)))

IdxIdle ==
    /\ cnt = 0
    /\ fmt = -1
    /\ idx = 0
    /\ enc = <<>>
    /\ ipc = "count"

SelectWidth ==
    /\ ipc = "count"
    /\ fmt' = idxsize(cnt)
    /\ ipc' = "selected"
    /\ UNCHANGED <<cnt, idx, enc>>

WriteIndex(n) ==
    /\ ipc \in {"selected", "written"}
    /\ idx' = n
    /\ enc' = addidx(fmt, n)
    /\ ipc' = "written"
    /\ UNCHANGED <<cnt, fmt>>

----------------------------------------------------------------------------
(* Quality tier and rounding digits *)

PolyDelta == 1
AutoThreshold == 1024

Requests == -1..4
PolyCounts == {0, 1000} \cup ((AutoThreshold - PolyDelta)..(AutoThreshold + PolyDelta))

quality_le(r, n, gc) ==
    LET q == IF r < 0 \/ r > 3
             THEN IF n <= AutoThreshold THEN 0 ELSE 1
             ELSE r
    IN  IF gc = FALSE /\ q < 2 THEN 2 ELSE q

\* the effective tier: auto selection, then the floor without grid compression
quality(r, n, gc) ==
    LET q == IF r < 0 \/ r > 3
             THEN IF n < AutoThreshold THEN 0 ELSE 1
             ELSE r
    IN  IF gc = FALSE /\ q < 2 THEN 2 ELSE q

\* "if use_quality == 3: digits = 15" is followed by an independent
\* "if use_quality == 2: ... else: digits = 4", which assigns again
digitsfor(q) ==
    LET d1 == IF q = 3 THEN 15 ELSE 0
    IN  IF q = 2 THEN 7 ELSE 4

QualIdle ==
    /\ req = 0
    /\ npoly = 0
    /\ use_gridcompress = TRUE
    /\ use_quality = -1
    /\ digits = 0
    /\ qpc = "start"

SelectQuality ==
    /\ qpc = "start"
    /\ use_quality' = quality(req, npoly, use_gridcompress)
    /\ qpc' = "quality"
    /\ UNCHANGED <<req, npoly, use_gridcompress, digits>>

SelectDigits ==
    /\ qpc = "quality"
    /\ digits' = digitsfor(use_quality)
    /\ qpc' = "digits"
    /\ UNCHANGED <<req, npoly, use_gridcompress, use_quality>>

----------------------------------------------------------------------------
(* Skin of a mesh vertex *)

MaxGroups == 2
MaxWeight == 3
MaxRun == 22
MaxZeros == 3
MaxSkinned == 2

NoBone == -1

\* Python's round() of the quotient n / d (d > 0): half to even
RoundHalfEven(n, d) ==
    LET q == n \div d
        r == n % d
    IN  IF 2 * r > d \/ (2 * r = d /\ q % 2 = 1) THEN q + 1 ELSE q

\* v.groups: the k-th group of a vertex refers to bone k-1, or to no bone
GroupsOfLen(n) ==
    [1..n -> [w : 0..MaxWeight, matched : BOOLEAN]]
SmallGroups ==
    UNION {{[k \in 1..n |-> [bone |-> IF f[k].matched THEN k - 1 ELSE NoBone, w |-> f[k].w]]
                : f \in GroupsOfLen(n)} : n \in 0..MaxGroups}
\* k groups of weight 1 followed by m groups of weight 0
RunGroups ==
    {[j \in 1..(k + m) |-> [bone |-> j - 1, w |-> IF j <= k THEN 1 ELSE 0]]
        : k \in 1..MaxRun, m \in 0..MaxZeros}
GroupInputs == SmallGroups \cup RunGroups

RECURSIVE SumWeights(_)
SumWeights(gs) == IF gs = <<>> THEN 0 ELSE Head(gs).w + SumWeights(Tail(gs))

\* the loop over v.groups; st = [skin, w, wm, si, failed]
RECURSIVE SkinLoop(_, _, _, _)
SkinLoop(gs, k, wf, st) ==
    IF k > Len(gs) THEN st
    ELSE
        LET g == gs[k]
            s0 == RoundHalfEven(g.w * 255, wf)
            wm1 == IF s0 > st.wm THEN s0 ELSE st.wm
            si1 == IF s0 > st.wm THEN Len(st.skin) \div 2 ELSE st.si
            s1 == IF s0 < 1 THEN 1 ELSE IF s0 > 255 THEN 255 ELSE s0
        IN  IF g.bone = NoBone
            \* bones[...] raises: report, use_skeleton = False, break
            THEN [st EXCEPT !.wm = wm1, !.si = si1, !.failed = TRUE]
            ELSE SkinLoop(gs, k + 1, wf,
                    [skin |-> st.skin \o <<I(g.bone), I(s1)>>,
                     w |-> st.w + s1, wm |-> wm1, si |-> si1, failed |-> FALSE])

\* "if w != 255: skin[si][1] += 255 - w" inside try/except: nothing happens
\* when si is unbound or beyond the list
FixSum(sk, w, i) ==
    IF w # 255 /\ i >= 0 /\ 2 * i + 2 <= Len(sk)
    THEN [sk EXCEPT ![2 * i + 2] = I(Val(sk[2 * i + 2]) + 255 - w)]
    ELSE sk

FixSum_first(sk, w, i) ==
    IF w # 255 /\ Len(sk) >= 2
    THEN [sk EXCEPT ![2] = I(Val(sk[2]) + 256 - w)]
    ELSE sk

SkinIdle ==
    /\ groups = <<>>
    /\ skin = <<>>
    /\ sref = -1
    /\ si = -1
    /\ skins = <<>>
    /\ nb_m = 0
    /\ use_skeleton = TRUE
    /\ nskinned = 0

\* the skin part of one loop index of a polygon; vg is non-empty while
\* use_skeleton holds
VertexSkin(gs) ==
    /\ nskinned < MaxSkinned
    /\ nskinned' = nskinned + 1
    /\ groups' = gs
    /\ IF use_skeleton /\ Len(gs) > 0 /\ SumWeights(gs) > 0
       THEN LET st == SkinLoop(gs, 1, SumWeights(gs),
                        [skin |-> <<>>, w |-> 0, wm |-> 0, si |-> si, failed |-> FALSE])
                sk == FixSum(st.skin, st.w, st.si)
                u == uniquedict(skins, sk)
            IN  /\ skin' = sk
                /\ si' = st.si
                /\ use_skeleton' = ~st.failed
                /\ skins' = u.l
                /\ sref' = u.i
                /\ nb_m' = IF Len(sk) \div 2 > nb_m THEN Len(sk) \div 2 ELSE nb_m
       ELSE /\ skin' = <<>>
            /\ sref' = -1
            /\ UNCHANGED <<si, use_skeleton, skins, nb_m>>

----------------------------------------------------------------------------
(* Vertex table: pooling, grid compression, emission *)

MaxVerts == 3

\* 1e10, the start value of the bounding box; it stands above every
\* coordinate of the model
BigMag == 2000000000

RECURSIVE Pow10(_)
Pow10(d) == IF d = 0 THEN 1 ELSE 10 * Pow10(d - 1)
\* ticks of the value 1.0 at d rounding digits
Unit(d) == Pow10(d)

\* round(x, digits) of a raw value given in tenths of a tick; the sign
\* stays, so a small negative value rounds to -0.0
pyround(x) == F(x.sg, RoundHalfEven(x.mag, 10))

\* "eliminate minus zero": x == -0.0 holds for 0.0 and for -0.0
vert_keep(x, y, z, w, c, sk) == <<x, y, z, w, I(c), I(sk)>>

vert(x, y, z, w, c, sk) ==
    <<IF x.mag = 0 THEN PosZero ELSE x,
      IF y.mag = 0 THEN PosZero ELSE y,
      IF z.mag = 0 THEN PosZero ELSE z,
      IF w.mag = 0 THEN PosZero ELSE w,
      I(c), I(sk)>>

\* raw coordinates, in tenths of a tick
RawZero == F(1, 0)
RawNegZero == F(-1, 0)
RawTick(sg, n) == F(sg, 10 * n)
RawUnits(sg, n, d) == F(sg, 10 * n * Unit(d))

\* raw positions of mesh vertices and bones
RawPositions(d) ==
    { <<RawNegZero, RawZero, RawZero>>,
      <<F(-1, 4), RawZero, RawZero>>,
      <<RawTick(-1, 1), RawZero, RawZero>>,
      <<RawUnits(1, 10, d), RawZero, RawZero>>,
      <<RawUnits(1, 10, d), RawTick(1, 1), RawZero>>,
      <<RawUnits(-1, 10, d), RawTick(1, 1), RawZero>>,
      <<RawZero, RawUnits(1, 1, d), RawZero>>,
      <<RawZero, RawTick(-1, 1), RawUnits(-1, 4, d)>> }
\* raw orientation quaternions of bones
RawQuats(d) ==
    { <<RawZero, RawZero, RawNegZero, RawUnits(1, 1, d)>>,
      <<RawUnits(-1, 1, d), RawZero, RawZero, F(-1, 3)>> }

\* the fold "if v[a] < lo: lo = v[a]" / "if v[a] > hi: hi = v[a]" over verts
RECURSIVE MinOver(_, _, _, _)
MinOver(vs, a, k, lo) ==
    IF k > Len(vs) THEN lo
    ELSE MinOver(vs, a, k + 1, IF Val(vs[k][a]) < Val(lo) THEN vs[k][a] ELSE lo)
RECURSIVE MaxOver(_, _, _, _)
MaxOver(vs, a, k, hi) ==
    IF k > Len(vs) THEN hi
    ELSE MaxOver(vs, a, k + 1, IF Val(vs[k][a]) > Val(hi) THEN vs[k][a] ELSE hi)

Max2(a, b) == IF b > a THEN b ELSE a

gridfactor_noabs(vs) ==
    LET hi(a) == MaxOver(vs, a, 1, F(-1, BigMag))
        m == Max2(Max2(Val(hi(1)), Val(hi(2))), Val(hi(3)))
    IN  F(1, IF m < 0 THEN -m ELSE m)

\* s = max(abs(min_x), abs(max_x), abs(min_y), abs(max_y), abs(min_z), abs(max_z))
gridfactor(vs) ==
    LET lo(a) == MinOver(vs, a, 1, F(1, BigMag))
        hi(a) == MaxOver(vs, a, 1, F(-1, BigMag))
    IN  F(1, Max2(Max2(Max2(lo(1).mag, hi(1).mag), Max2(lo(2).mag, hi(2).mag)),
                  Max2(lo(3).mag, hi(3).mag)))

\* the decimal digits of r / d, one at a time
RECURSIVE LongDiv(_, _, _, _)
LongDiv(q, r, d, k) ==
    IF k = 0 THEN <<q, r>>
    ELSE LongDiv(q * 10 + (r * 10) \div d, (r * 10) % d, d, k - 1)

OverRange == 100

\* round(x / s, digits) for s > 0, in ticks: the sign of x stays, the
\* quotient is rounded to the nearest tick (an exact decimal tie, which no
\* input of the model produces, goes to the even tick).  A quotient of OverRange or more is
\* beyond the magnitudes of the model and is represented by BigMag.
divround(x, sc, d) ==
    IF x.mag \div sc.mag >= OverRange THEN F(x.sg, BigMag)
    ELSE LET qr == LongDiv(x.mag \div sc.mag, x.mag % sc.mag, sc.mag, d)
             q == qr[1]
             r == qr[2]
         IN  F(x.sg, IF 2 * r > sc.mag \/ (2 * r = sc.mag /\ q % 2 = 1) THEN q + 1 ELSE q)

normalize_xy(vs, sc, d) ==
    [k \in 1..Len(vs) |->
        IF Val(vs[k][6]) # -2
        THEN [vs[k] EXCEPT ![1] = divround(vs[k][1], sc, d),
                           ![2] = divround(vs[k][2], sc, d)]
        ELSE vs[k]]

\* the rescaling loop: every vertex with v[5] != -2
normalize(vs, sc, d) ==
    [k \in 1..Len(vs) |->
        IF Val(vs[k][6]) # -2
        THEN [vs[k] EXCEPT ![1] = divround(vs[k][1], sc, d),
                           ![2] = divround(vs[k][2], sc, d),
                           ![3] = divround(vs[k][3], sc, d)]
        ELSE vs[k]]

\* int(v * k): truncation towards zero; the int 0 has no sign
inttrunc(v, k, d) ==
    LET n == (v.mag \div Unit(d)) * k + ((v.mag % Unit(d)) * k) \div Unit(d)
    IN  [neg |-> v.sg = -1 /\ n # 0, mag |-> n]

\* one emitted number: its sign and magnitude as they stand in the output.
\* str() and the float formats of pack keep the sign of zero.
emitnum(v, q, ascii, d) ==
    IF ascii THEN [neg |-> v.sg = -1, mag |-> v.mag]
    ELSE IF q = 0 THEN inttrunc(v, 127, d)
    ELSE IF q = 1 THEN inttrunc(v, 32767, d)
    ELSE [neg |-> v.sg = -1, mag |-> v.mag]

ScaleRequests(d) == {F(1, 0), F(1, Unit(d)), F(1, 2 * Unit(d))}

GridIdle ==
    /\ scale_req = F(1, 0)
    /\ use_scale = F(1, 0)
    /\ vdict = <<>>
    /\ verts = <<>>
    /\ sfac = <<>>
    /\ use_ascii = FALSE
    /\ vrts = <<>>
    /\ declared = <<>>
    /\ gpc = "mesh"

\* a mesh vertex or a bone position: uniquedict(verts, vert(round(x), round(y), round(z), 1.0, 0, -1))
AddPosition(p) ==
    /\ gpc = "mesh"
    /\ Len(vdict) < MaxVerts
    /\ vdict' = uniquedict(vdict,
                    vert(pyround(p[1]), pyround(p[2]), pyround(p[3]),
                         F(1, Unit(digits)), 0, -1)).l
    /\ UNCHANGED <<scale_req, use_scale, verts, sfac, use_ascii, vrts, declared, gpc>>

\* a bone orientation: uniquedict(verts, vert(round(q.x), ..., round(q.w), 0, -2))
AddOrientation(q) ==
    /\ gpc = "mesh"
    /\ Len(vdict) < MaxVerts
    /\ vdict' = uniquedict(vdict,
                    vert(pyround(q[1]), pyround(q[2]), pyround(q[3]), pyround(q[4]), 0, -2)).l
    /\ UNCHANGED <<scale_req, use_scale, verts, sfac, use_ascii, vrts, declared, gpc>>

ConvertVerts ==
    /\ gpc = "mesh"
    /\ verts' = dict2list(vdict)
    /\ gpc' = "lists"
    /\ UNCHANGED <<scale_req, use_scale, vdict, sfac, use_ascii, vrts, declared>>

\* "normalize coordinates"
GridCompress ==
    /\ gpc = "lists"
    /\ gpc' = "scaled"
    /\ IF use_gridcompress
       THEN LET sc == gridfactor(verts)
                us == IF Val(use_scale) <= 0 THEN sc ELSE use_scale
            IN  /\ sfac' = <<sc>>
                /\ verts' = IF sc.mag # Unit(digits) /\ sc.mag # 0
                            THEN normalize(verts, sc, digits)
                            ELSE verts
                /\ use_scale' = IF Val(us) <= 0 THEN F(1, Unit(digits)) ELSE us
       ELSE /\ use_scale' = IF Val(use_scale) <= 0 THEN F(1, Unit(digits)) ELSE use_scale
            /\ UNCHANGED <<sfac, verts>>
    /\ UNCHANGED <<scale_req, vdict, use_ascii, vrts, declared>>

\* the header scale and the vertex list of the textual or the binary writer
Emit(ascii) ==
    /\ gpc = "scaled"
    /\ gpc' = "written"
    /\ use_ascii' = ascii
    /\ declared' = <<use_scale>>
    /\ vrts' = [k \in 1..Len(verts) |->
                  [a \in 1..4 |-> emitnum(verts[k][a], use_quality, ascii, digits)]]
    /\ UNCHANGED <<scale_req, use_scale, vdict, verts, sfac>>

----------------------------------------------------------------------------
(* Names *)

\* a name is the sequence of its character codes, each an int
ChSpace == 32
ChSlash == 47
ChBackslash == 92
ChUnderscore == 95
ChCR == 13
ChLF == 10

RECURSIVE StripLeft(_)
StripLeft(s) ==
    IF s # <<>> /\ Val(Head(s)) \in {ChSpace, ChLF, ChCR} THEN StripLeft(Tail(s)) ELSE s
RECURSIVE StripRight(_)
StripRight(s) ==
    IF s # <<>> /\ Val(s[Len(s)]) \in {ChSpace, ChLF, ChCR}
    THEN StripRight(SubSeq(s, 1, Len(s) - 1)) ELSE s

\* safestr(name) with morelines = 0: ' ', '/' and '\' become '_', '\r' goes,
\* '\n' becomes ' ', then strip()
safestr(name) ==
    LET rep(c) == IF Val(c) \in {ChSpace, ChSlash, ChBackslash} THEN I(ChUnderscore)
                  ELSE IF Val(c) = ChLF THEN I(ChSpace) ELSE c
        kept == SelectSeq(name, LAMBDA c : Val(c) # ChCR)
    IN  StripRight(StripLeft([k \in 1..Len(kept) |-> rep(kept[k])]))

----------------------------------------------------------------------------
(* Materials *)

MaxMats == 2

\* material values count tenths
Tenths(n) == F(1, n)
Absent == <<>>

\* mat_property_map, in the order of the dict: [key, fmt, attr]
mat_property_map ==
    << [key |-> 0,   fmt |-> "color",   attr |-> "base_color"],
       [key |-> 1,   fmt |-> "gscale",  attr |-> "metallic"],
       [key |-> 2,   fmt |-> "gscale",  attr |-> "specular"],
       [key |-> 3,   fmt |-> "color",   attr |-> "specular_tint"],
       [key |-> 4,   fmt |-> "//color", attr |-> "emissive"],
       [key |-> 5,   fmt |-> "gscale",  attr |-> "transmission"],
       [key |-> 6,   fmt |-> "float",   attr |-> "normalmap_strength"],
       [key |-> 7,   fmt |-> "float",   attr |-> "alpha"],
       [key |-> 8,   fmt |-> "//byte",  attr |-> "illumination"],
       [key |-> 64,  fmt |-> "float",   attr |-> "roughness"],
       [key |-> 65,  fmt |-> "float",   attr |-> "metallic"],
       [key |-> 66,  fmt |-> "//float", attr |-> "sheen"],
       [key |-> 67,  fmt |-> "float",   attr |-> "ior"],
       [key |-> 128, fmt |-> "map",     attr |-> "base_color_texture"],
       [key |-> 130, fmt |-> "//map",   attr |-> "specular_texture"],
       [key |-> 133, fmt |-> "map",     attr |-> "transmission_texture"],
       [key |-> 134, fmt |-> "map",     attr |-> "normalmap_texture"],
       [key |-> 135, fmt |-> "map",     attr |-> "alpha_texture"],
       [key |-> 192, fmt |-> "map",     attr |-> "roughness_texture"],
       [key |-> 193, fmt |-> "map",     attr |-> "metallic_texture"],
       [key |-> 195, fmt |-> "map",     attr |-> "ior_texture"] >>

\* mat_wrap_key[0][0:2] == "//"
Commented(f) == f \in {"//color", "//byte", "//float", "//map"}

\* props[key] = [key, val]: a dict keeps the position of a key it already has
RECURSIVE FindProp(_, _, _)
FindProp(ps, key, k) ==
    IF k > Len(ps) THEN 0
    ELSE IF ps[k][1] = key THEN k
    ELSE FindProp(ps, key, k + 1)
SetProp(ps, key, val) ==
    LET k == FindProp(ps, key, 1)
    IN  IF k = 0 THEN Append(ps, <<key, val>>)
        ELSE [ps EXCEPT ![k] = <<key, val>>]

\* the attributes the PrincipledBSDF wrapper of a material answers to; the
\* wrapper has no attribute "emissive", "illumination", "sheen" or
\* "specular_texture", so getattr(..., None) gives None for them
WrapAttrs ==
    {"base_color", "metallic", "specular", "specular_tint", "transmission",
     "normalmap_strength", "alpha", "roughness", "ior",
     "base_color_texture", "transmission_texture", "normalmap_texture",
     "alpha_texture", "roughness_texture", "metallic_texture", "ior_texture"}
getattr(mat, a) == IF a \in WrapAttrs THEN <<mat[a]>> ELSE Absent

\* "Kd": the alpha of the diffuse colour
kd_alpha(mat) ==
    IF mat.alpha.mag # 0 /\ mat.alpha # Tenths(10) THEN mat.alpha
    ELSE IF Len(mat.base_color) > 3 THEN mat.base_color[4]
    ELSE Tenths(0)

\* "il": the illumination model
illumination(mat, d) ==
    IF mat.specular.mag = 0 THEN 1
    ELSE IF mat.metallic.mag # 0 THEN (IF d # Tenths(10) THEN 6 ELSE 3)
    ELSE IF d # Tenths(10) THEN 9
    ELSE 2

\* one pass of "for key, mat_wrap_key in mat_property_map.items()";
\* st = [props, cmap, strs, d, materials], d being <<>> while unbound
PropStep(mat, e, st) ==
    LET \* key 0 and key 8 are derived first and then fall into the common part
        d1 == IF e.key = 0 THEN kd_alpha(mat) ELSE st.d[1]
        u0 == uniquedict(st.cmap, <<mat.base_color[1], mat.base_color[2], mat.base_color[3], d1>>)
        il == illumination(mat, d1)
        s1 == IF e.key = 0 /\ d1.mag # 0
              THEN [st EXCEPT !.d = <<d1>>, !.cmap = u0.l, !.props = SetProp(st.props, 0, I(u0.i))]
              ELSE IF e.key = 8 /\ il # 0
              THEN [st EXCEPT !.props = SetProp(st.props, 8, I(il))]
              ELSE IF e.key = 0 THEN [st EXCEPT !.d = <<d1>>]
              ELSE st
        got == getattr(mat, e.attr)
    IN  IF e.key \notin {0, 8} /\ Commented(e.fmt) THEN s1
        ELSE IF got = Absent THEN s1
        ELSE
            LET val == got[1]
                us == uniquedict(s1.strs, val[1])
                ug == uniquedict(s1.cmap, <<val, val, val, Tenths(10)>>)
                u3 == uniquedict(s1.cmap, <<val[1], val[2], val[3], Tenths(10)>>)
                u4 == uniquedict(s1.cmap, val)
            IN  IF e.key >= 128
                THEN IF val = Absent \/ val[1] = <<>> THEN s1
                     ELSE [s1 EXCEPT !.strs = us.l, !.props = SetProp(s1.props, e.key, I(us.i))]
                ELSE IF e.fmt = "gscale" /\ val.mag # 0
                THEN [s1 EXCEPT !.cmap = ug.l, !.props = SetProp(s1.props, e.key, I(ug.i))]
                ELSE IF e.fmt = "color" /\ Len(val) = 3
                THEN [s1 EXCEPT !.cmap = u3.l, !.props = SetProp(s1.props, e.key, I(u3.i))]
                ELSE IF e.fmt = "color" /\ Len(val) = 4
                THEN [s1 EXCEPT !.cmap = u4.l, !.props = SetProp(s1.props, e.key, I(u4.i))]
                ELSE IF e.fmt = "float" /\ val.mag # 0
                THEN [s1 EXCEPT !.props = SetProp(s1.props, e.key, val)]
                ELSE IF e.fmt \in {"byte", "int"} /\ val.mag # 0
                THEN [s1 EXCEPT !.props = SetProp(s1.props, e.key, val)]
                ELSE s1

\* the loop over mat_property_map; props never holds more keys than the map,
\* and looking at it settles the value of one pass before the next begins
RECURSIVE PropLoop(_, _, _)
PropLoop(mat, k, st) ==
    IF k > Len(mat_property_map) \/ Len(st.props) > Len(mat_property_map) THEN st
    ELSE PropLoop(mat, k + 1, PropStep(mat, mat_property_map[k], st))

\* the TEX_IMAGE scan of the node tree; st as above
NodeScan(mat, st) ==
    IF mat.node_image = Absent THEN st
    ELSE LET u == uniquedict(st.strs, mat.node_image[1])
         IN  [st EXCEPT !.strs = u.l, !.props = SetProp(st.props, 128, I(u.i))]

\* the names of the model
NameA == <<I(97)>>
NameB == <<I(98)>>
NameAB == <<I(97), I(ChSpace), I(98)>>
NameA_B == <<I(97), I(ChUnderscore), I(98)>>
ImageName == <<I(105)>>

Grey == Tenths(8)
\* the referenced materials: Principled BSDF values as the wrapper gives them
Materials ==
    {[name |-> n, node_image |-> IF t = "node" THEN <<ImageName>> ELSE Absent,
      base_color |-> IF bca = Absent THEN <<Grey, Grey, Grey>> ELSE <<Grey, Grey, Grey, bca[1]>>,
      metallic |-> me, specular |-> sp,
      specular_tint |-> <<Tenths(0), Tenths(0), Tenths(0)>>,
      transmission |-> Tenths(0), normalmap_strength |-> Tenths(0),
      alpha |-> al, roughness |-> Tenths(0), ior |-> Tenths(0),
      base_color_texture |-> IF t = "wrapped" THEN <<ImageName>> ELSE <<>>,
      transmission_texture |-> <<>>, normalmap_texture |-> <<>>, alpha_texture |-> <<>>,
      roughness_texture |-> <<>>, metallic_texture |-> <<>>, ior_texture |-> <<>>]
        : n \in {NameA, NameB}, t \in {"none", "node", "wrapped"},
          bca \in {Absent, <<Tenths(5)>>, <<Tenths(10)>>},
          me \in {Tenths(0), Tenths(5)}, sp \in {Tenths(0), Tenths(5)},
          al \in {Tenths(0), Tenths(5), Tenths(10)}}

\* an empty material slot: mesh.materials[i] is None
NoMat == [name |-> <<I(0)>>]

\* uniquedict(refmats, mesh.materials[i]): str() of a material spells its name
refmat(l, m) ==
    IF \E k \in 1..Len(l) : l[k].name = m.name THEN l ELSE Append(l, m)

TabIdle ==
    /\ cmap = <<>>
    /\ strs = <<>>

MatIdle ==
    /\ use_materials = TRUE
    /\ refmats = <<>>
    /\ refpos = 0
    /\ props = <<>>
    /\ kd = Absent
    /\ materials = <<>>

\* a polygon of the mesh refers to material m; the materials of a scene
\* have names of their own, here in the order of first reference
MatNames == <<NameA, NameB>>
RefMaterial(m) ==
    /\ refpos = 0
    /\ Len(refmats) < MaxMats
    /\ \/ \E k \in 1..Len(refmats) : refmats[k] = m
       \/ /\ Len(refmats) < Len(MatNames)
          /\ m.name \in {MatNames[Len(refmats) + 1], NoMat.name}
          /\ \A k \in 1..Len(refmats) : refmats[k].name # m.name
    /\ refmats' = refmat(refmats, m)
    /\ UNCHANGED <<use_materials, refpos, props, kd, materials, tabVars>>

\* the body of the loop for a material that is not None;
\* st = [props, cmap, strs, d, materials]
\* "if len(props) > 0: materials.append([uniquedict(strs, safestr(mat.name)), props])"
appendmaterial(mat, s1) ==
    LET un == uniquedict(s1.strs, safestr(mat.name))
    IN  IF Len(s1.props) > 0
        THEN [s1 EXCEPT !.strs = un.l,
                        !.materials = Append(s1.materials, [name |-> un.i, props |-> s1.props])]
        ELSE s1

material(mat, st) ==
    appendmaterial(mat, PropLoop(mat, 1, NodeScan(mat, [st EXCEPT !.props = <<>>])))

MaterialProps(mat) ==
    \E st \in {material(mat, [props |-> props, cmap |-> cmap, strs |-> strs, d |-> kd,
                                materials |-> materials])} :
        /\ props' = st.props
        /\ kd' = st.d
        /\ cmap' = st.cmap
        /\ strs' = st.strs
        /\ materials' = st.materials

\* one pass of "for i, v in refmats.items()"
EncodeMaterial ==
    /\ use_materials
    /\ refpos < Len(refmats)
    /\ refpos' = refpos + 1
    /\ LET mat == refmats[refpos + 1]
       IN  IF mat = NoMat
           THEN UNCHANGED <<props, kd, cmap, strs, materials>>
           ELSE MaterialProps(mat)
    /\ UNCHANGED <<use_materials, refmats>>

\* the whole materials part: "if use_materials: for i, v in refmats.items()"
RECURSIVE MaterialLoop(_, _, _)
MaterialLoop(rm, k, st) ==
    IF k > Len(rm) THEN st
    ELSE MaterialLoop(rm, k + 1, IF rm[k] = NoMat THEN st ELSE material(rm[k], st))

----------------------------------------------------------------------------
(* Bind-pose skeleton *)

MaxObjects == 3
MaxBones == 2

\* uniquedict(verts, vert(round(p[0]), round(p[1]), round(p[2]), 1.0, 0, -1))
posvert(p) == vert(pyround(p[1]), pyround(p[2]), pyround(p[3]), F(1, Unit(digits)), 0, -1)
\* uniquedict(verts, vert(round(q.x), round(q.y), round(q.z), round(q.w), 0, -2))
orivert(q) == vert(pyround(q[1]), pyround(q[2]), pyround(q[3]), pyround(q[4]), 0, -2)

\* position of the key name among the items of the bones dict, 0 when absent
RECURSIVE FindBone(_, _, _)
FindBone(bs, name, k) ==
    IF k > Len(bs) THEN 0
    ELSE IF bs[k].name = name THEN k
    ELSE FindBone(bs, name, k + 1)

\* bones[name] = [idx, [a, n, pos, ori]]
SetBone(bs, item) ==
    LET k == FindBone(bs, item.name, 1)
    IN  IF k = 0 THEN Append(bs, item) ELSE [bs EXCEPT ![k] = item]

\* "for j, p in enumerate(ob_main.data.bones): if p == b.parent: a = j"
RECURSIVE ParentIndex(_, _, _)
ParentIndex(obones, parent, j) ==
    IF parent = Absent \/ j > Len(obones) THEN -1
    ELSE IF obones[j].name = parent[1] THEN j - 1
    ELSE ParentIndex(obones, parent, j + 1)

NotUnique == "Bone name not unique"
NoArmature == "Skipping skeletal animation in lack of armature"

\* the loop over the bones of one armature;
\* st = [bones, strs, verts, idx, use_skeleton, use_animation, reports]
RECURSIVE BoneLoop(_, _, _)
BoneLoop(obones, k, st) ==
    IF k > Len(obones) THEN st
    ELSE
        LET b == obones[k]
            a == ParentIndex(obones, b.parent, 1)
            n == safestr(b.name)
            un == uniquedict(st.strs, n)
            up == uniquedict(st.verts, posvert(b.p))
            uq == uniquedict(up.l, orivert(b.q))
        IN  IF FindKey(st.strs, hash(str(n)), 1) # 0
            \* strs[hash(str(n))] is there: report, disable, break
            THEN [st EXCEPT !.reports = Append(st.reports, NotUnique),
                            !.use_skeleton = FALSE,
                            !.use_animation = FALSE,
                            !.bones = <<>>]
            ELSE BoneLoop(obones, k + 1,
                    [st EXCEPT !.strs = un.l, !.verts = uq.l, !.idx = st.idx + 1,
                               !.bones = SetBone(st.bones,
                                   [name |-> b.name, idx |-> st.idx, a |-> a,
                                    n |-> un.i, pos |-> up.i, ori |-> uq.i])])

\* bone poses of the model
BonePos(k) ==
    IF k = 1 THEN <<RawUnits(1, 1, digits), RawZero, RawZero>>
    ELSE <<RawZero, RawUnits(1, 1, digits), RawTick(-1, 1)>>
BoneQuat == <<RawZero, RawZero, RawNegZero, RawUnits(1, 1, digits)>>

BoneNames == {NameA, NameAB, NameA_B}
\* the armatures: bones with names of their own, a child after its parent
BoneLists ==
    {<<[name |-> n, parent |-> Absent, p |-> BonePos(1), q |-> BoneQuat]>> : n \in BoneNames}
    \cup
    {<<[name |-> n1, parent |-> Absent, p |-> BonePos(1), q |-> BoneQuat],
       [name |-> n2, parent |-> IF child THEN <<n1>> ELSE Absent,
        p |-> BonePos(2), q |-> BoneQuat]>>
        : n1 \in BoneNames, n2 \in BoneNames, child \in BOOLEAN}
Armatures ==
    {[type |-> "ARMATURE", bones |-> bl, pose_position |-> "POSE", animation_data |-> Absent]
        : bl \in {l \in BoneLists : \A i, j \in 1..Len(l) : l[i].name = l[j].name => i = j}}
MeshObject == [type |-> "MESH", bones |-> <<>>, pose_position |-> "POSE", animation_data |-> Absent]
RECURSIVE Scenes(_)
Scenes(n) ==
    IF n = 0 THEN {<<>>}
    ELSE LET s == Scenes(n - 1)
         IN  s \cup {Append(o, x) : o \in {t \in s : Len(t) = n - 1},
                                    x \in Armatures \cup {MeshObject}}

SceneIdle ==
    /\ objects = <<>>
    /\ frame_current = 0
    /\ objects0 = <<>>
    /\ frame0 = 0

BoneIdle ==
    /\ bones = <<>>
    /\ bidx = 0
    /\ use_animation = FALSE
    /\ reports = <<>>
    /\ opos = 0
    /\ bpc = "armature"

skinRest == <<groups, skin, sref, si, skins, nb_m, nskinned>>
gridRest == <<scale_req, use_scale, verts, sfac, use_ascii, vrts, declared, gpc>>

\* one pass of "for i, ob_main in enumerate(objects)" of the armature part
ArmatureObject ==
    /\ bpc = "armature"
    /\ opos < Len(objects)
    /\ opos' = opos + 1
    /\ LET ob == objects[opos + 1]
           st == BoneLoop(ob.bones, 1,
                    [bones |-> bones, strs |-> strs, verts |-> vdict, idx |-> bidx,
                     use_skeleton |-> use_skeleton, use_animation |-> use_animation,
                     reports |-> reports])
       IN  IF ob.type # "ARMATURE"
           THEN UNCHANGED <<bones, bidx, use_animation, reports, strs, vdict, use_skeleton>>
           ELSE /\ bones' = st.bones
                /\ bidx' = st.idx
                /\ use_animation' = st.use_animation
                /\ reports' = st.reports
                /\ strs' = st.strs
                /\ vdict' = st.verts
                /\ use_skeleton' = st.use_skeleton
    /\ UNCHANGED <<bpc, cmap, sceneVars, skinRest, gridRest>>

\* "if len(bones) < 1 and use_animation": the end of the armature part
EndArmature ==
    /\ bpc = "armature"
    /\ opos = Len(objects)
    /\ bpc' = "mesh"
    /\ IF Len(bones) < 1 /\ use_animation
       THEN /\ reports' = Append(reports, NoArmature)
            /\ use_animation' = FALSE
       ELSE UNCHANGED <<reports, use_animation>>
    /\ UNCHANGED <<bones, bidx, opos, tabVars, sceneVars, skinVars, gridVars>>

----------------------------------------------------------------------------
(* Pose state of the scene, actions and animation frames *)

MaxFrames == 5

\* the whole armature part: the loop over the objects and its end
RECURSIVE ArmatureLoop(_, _, _)
ArmatureLoop(objs, k, st) ==
    IF k > Len(objs) THEN st
    ELSE ArmatureLoop(objs, k + 1,
            IF objs[k].type # "ARMATURE" THEN st ELSE BoneLoop(objs[k].bones, 1, st))
ArmaturePart(objs, st) ==
    LET s1 == ArmatureLoop(objs, 1, st)
    IN  IF Len(s1.bones) < 1 /\ s1.use_animation
        THEN [s1 EXCEPT !.reports = Append(s1.reports, NoArmature), !.use_animation = FALSE]
        ELSE s1

\* animation_data is None (Absent) or holds an action: <<NoAction>> or <<name>>
NoAction == <<>>

\* "set rest armature": oldpose, oldaction and the objects in rest position
RECURSIVE SaveLoop(_, _, _)
SaveLoop(objs, k, st) ==
    IF k > Len(objs) THEN st
    ELSE LET ob == objs[k]
             has == ob.animation_data # Absent /\ ob.animation_data[1] # NoAction
         IN  IF ob.type # "ARMATURE" THEN SaveLoop(objs, k + 1, st)
             ELSE SaveLoop(objs, k + 1,
                    [oldpose |-> st.oldpose @@ ((k - 1) :> ob.pose_position),
                     objs |-> [st.objs EXCEPT ![k].pose_position = "REST"],
                     oldaction |-> IF st.oldaction = Absent /\ has
                                   THEN ob.animation_data ELSE st.oldaction])

\* "restore original armature"
RECURSIVE RestoreLoop(_, _, _, _)
RestoreLoop(objs, k, op, oa) ==
    IF k > Len(objs) THEN objs
    ELSE LET ob == objs[k]
             o1 == IF oa # Absent /\ ob.animation_data # Absent
                   THEN [ob EXCEPT !.animation_data = oa] ELSE ob
         IN  IF ob.type # "ARMATURE" THEN RestoreLoop(objs, k + 1, op, oa)
             ELSE RestoreLoop([objs EXCEPT ![k] = [o1 EXCEPT !.pose_position = op[k - 1]]],
                              k + 1, op, oa)

\* "set action pose": st = [objs, raised]; the assignment of the action
\* raises when the armature has no animation data
RECURSIVE ActionPoseLoop(_, _, _)
ActionPoseLoop(a, k, st) ==
    IF k > Len(st.objs) THEN st
    ELSE LET ob == st.objs[k]
         IN  IF ob.type # "ARMATURE" THEN ActionPoseLoop(a, k + 1, st)
             ELSE IF a.index # -1 /\ ob.animation_data = Absent
             THEN [st EXCEPT !.raised = TRUE]
             ELSE ActionPoseLoop(a, k + 1,
                    [st EXCEPT !.objs[k].pose_position = "POSE",
                               !.objs[k].animation_data =
                                    IF a.index # -1 THEN <<bpy_actions[a.index + 1].name>>
                                    ELSE ob.animation_data])

\* Python floats are IEEE 754 doubles of MantBits significant bits.  A double
\* x >= 0 is held as [int, frac]: its integer part and the bits of its
\* fraction, the most significant first.
MantBits == 53

RECURSIVE BitLen(_)
BitLen(x) == IF x = 0 THEN 0 ELSE 1 + BitLen(x \div 2)

\* k further bits of the quotient r / d by long division, and the remainder
RECURSIVE FracBits(_, _, _, _)
FracBits(r, d, k, acc) ==
    IF k = 0 THEN [bits |-> acc, r |-> r]
    ELSE FracBits((2 * r) % d, d, k - 1, Append(acc, (2 * r) \div d))

\* one unit in the last place added to the bits 1..k
RECURSIVE IncrBits(_, _)
IncrBits(bits, k) ==
    IF k = 0 THEN [bits |-> bits, carry |-> 1]
    ELSE IF bits[k] = 0 THEN [bits |-> [bits EXCEPT ![k] = 1], carry |-> 0]
    ELSE IncrBits([bits EXCEPT ![k] = 0], k - 1)

\* the double a / d of two positive integers, a >= d: the quotient rounded
\* to MantBits significant bits, a tie to the even neighbour
fdiv(a, d) ==
    LET fb == MantBits - BitLen(a \div d)
        q == FracBits(a % d, d, fb, <<>>)
        up == 2 * q.r > d \/ (2 * q.r = d /\ q.bits[fb] = 1)
        inc == IncrBits(q.bits, fb)
    IN  IF up THEN [int |-> a \div d + inc.carry, frac |-> inc.bits]
        ELSE [int |-> a \div d, frac |-> q.bits]

\* the exact product of the integer n >= 0 and the fraction bits k..1
RECURSIVE MulBits(_, _, _, _, _)
MulBits(n, bits, k, carry, acc) ==
    IF k = 0 THEN [bits |-> acc, carry |-> carry]
    ELSE MulBits(n, bits, k - 1, (n * bits[k] + carry) \div 2,
                 <<(n * bits[k] + carry) % 2>> \o acc)

\* the double n * x of an integer n >= 0 and a double x: the exact product
\* p.carry + n * x.int + 0.p.bits rounded to MantBits significant bits
fmulround(whole, bits, kb) ==
    LET kept == SubSeq(bits, 1, kb)
        up == /\ bits[kb + 1] = 1
              /\ \/ \E j \in (kb + 2)..Len(bits) : bits[j] = 1
                 \/ (IF kb = 0 THEN whole % 2 ELSE bits[kb]) = 1
        inc == IncrBits(kept, kb)
    IN  IF up THEN [int |-> whole + inc.carry, frac |-> inc.bits]
        ELSE [int |-> whole, frac |-> kept]
fmulexact(whole, bits) ==
    IF MantBits - BitLen(whole) >= Len(bits) THEN [int |-> whole, frac |-> bits]
    ELSE fmulround(whole, bits, MantBits - BitLen(whole))
fmulcarry(n, x, p) == fmulexact(n * x.int + p.carry, p.bits)
fmul(n, x) == fmulcarry(n, x, MulBits(n, x.frac, Len(x.frac), 0, <<>>))

\* "mpf = 1000.0 / use_fps"
mpf(fps) == fdiv(1000, fps)
\* int(n * mpf): the integer part of the double
msec(n, fps) == fmul(n, mpf(fps)).int

\* "collect actions from timeline markers, otherwise use actions"
RECURSIVE MarkerActs(_, _, _, _)
MarkerActs(tlm, i, fe, st) ==
    IF i > Len(tlm) THEN st
    ELSE LET t == tlm[i]
             et == IF i + 1 > Len(tlm) THEN fe ELSE tlm[i + 1].frame - 1
         IN  MarkerActs(tlm, i + 1, fe,
                IF et > t.frame
                THEN [acts |-> Append(st.acts, [name |-> safestr(t.name), index |-> -1,
                                                st |-> t.frame, et |-> et]),
                      nf |-> st.nf + et - t.frame]
                ELSE st)
RECURSIVE DataActs(_, _, _)
DataActs(bas, i, st) ==
    IF i > Len(bas) THEN st
    ELSE LET a == bas[i]
         IN  DataActs(bas, i + 1,
                [acts |-> IF a.et > 0
                          THEN Append(st.acts, [name |-> safestr(a.name), index |-> i - 1,
                                                st |-> a.st, et |-> a.et])
                          ELSE st.acts,
                 nf |-> st.nf + a.et - a.st])
AnimName == <<I(65), I(110), I(105), I(109)>>
collect(um, tlm, bas, fs, fe) ==
    LET c == IF um /\ Len(tlm) > 0
             THEN MarkerActs(tlm, 1, fe, [acts |-> <<>>, nf |-> 0])
             ELSE DataActs(bas, 1, [acts |-> <<>>, nf |-> 0])
    IN  IF c.nf = 0
        THEN Append(c.acts, [name |-> AnimName, index |-> -1, st |-> fs, et |-> fe])
        ELSE c.acts

\* "differerent?"
posechanged_and(last, pos, ori) == last.pos # pos /\ last.ori # ori
posechanged(last, pos, ori) == last.pos # pos \/ last.ori # ori

NoBindBone == "Animated bone name does not match any bind-pose bone"
NoSkeleton == "Trying to export animations without armature and skin"

\* the pose bones of one armature at one frame;
\* st = [verts, lastpose, changed, sampled, reports]
RECURSIVE PoseBoneLoop(_, _, _, _)
PoseBoneLoop(obones, ps, k, st) ==
    IF k > Len(obones) THEN st
    ELSE
        LET b == obones[k]
            kb == FindBone(bones, b.name, 1)
            up == uniquedict(st.verts, posvert(ps[k].p))
            uq == uniquedict(up.l, orivert(ps[k].q))
            ch == posechanged(st.lastpose[kb], up.i, uq.i)
        IN  IF kb = 0
            THEN [st EXCEPT !.reports = Append(st.reports, NoBindBone)]
            ELSE PoseBoneLoop(obones, ps, k + 1,
                    [st EXCEPT !.verts = uq.l,
                               !.sampled = Append(st.sampled,
                                    [idx |-> bones[kb].idx, pos |-> up.i, ori |-> uq.i]),
                               !.changed = IF ch THEN Append(st.changed,
                                    [idx |-> bones[kb].idx, pos |-> up.i, ori |-> uq.i])
                                           ELSE st.changed,
                               !.lastpose = IF ch THEN [st.lastpose EXCEPT ![kb] =
                                                            [pos |-> up.i, ori |-> uq.i]]
                                            ELSE st.lastpose])
RECURSIVE PoseObjectLoop(_, _, _, _)
PoseObjectLoop(objs, pss, k, st) ==
    IF k > Len(objs) THEN st
    ELSE PoseObjectLoop(objs, pss, k + 1,
            IF objs[k].type # "ARMATURE" THEN st
            ELSE PoseBoneLoop(objs[k].bones, pss[k], 1, st))

\* the poses a bone can take at a frame: its bind pose, or moved (a bone
\* without parent) or turned (a child)
MovedPos == <<RawUnits(1, 2, digits), RawZero, RawZero>>
TurnedQuat == <<RawUnits(1, 1, digits), RawZero, RawZero, RawZero>>
BonePoses(b) ==
    {[p |-> b.p, q |-> b.q],
     IF b.parent = Absent THEN [p |-> MovedPos, q |-> b.q] ELSE [p |-> b.p, q |-> TurnedQuat]}
\* per object, per bone, a pose
RECURSIVE PoseProduct(_)
PoseProduct(obones) ==
    IF obones = <<>> THEN {<<>>}
    ELSE {<<x>> \o r : x \in BonePoses(Head(obones)), r \in PoseProduct(Tail(obones))}
RECURSIVE ScenePoses(_)
ScenePoses(objs) ==
    IF objs = <<>> THEN {<<>>}
    ELSE {<<x>> \o r : x \in PoseProduct(Head(objs).bones), r \in ScenePoses(Tail(objs))}

\* an armature of two bones, the second a child of the first
TwoBones ==
    [type |-> "ARMATURE",
     bones |-> <<[name |-> NameA, parent |-> Absent, p |-> BonePos(1), q |-> BoneQuat],
                 [name |-> NameB, parent |-> <<NameA>>, p |-> BonePos(2), q |-> BoneQuat]>>,
     pose_position |-> "POSE", animation_data |-> <<NoAction>>]

animIn == <<use_fps, use_markers, markers, bpy_actions, frame_start, frame_end>>
savedPose == <<oldframe, oldpose, oldaction>>
actionCur == <<frame, a2, lastpose, frames, changed, sampled, lf, hist>>
boneRest == <<bones, bidx, opos, bpc>>

AnimIdle ==
    /\ use_fps = 25
    /\ use_markers = FALSE
    /\ markers = <<>>
    /\ bpy_actions = <<>>
    /\ frame_start = 0
    /\ frame_end = 0
    /\ oldframe = 0
    /\ oldpose = <<>>
    /\ oldaction = Absent
    /\ acts = <<>>
    /\ apos = 0
    /\ frame = 0
    /\ a2 = 0
    /\ lastpose = <<>>
    /\ frames = <<>>
    /\ changed = <<>>
    /\ sampled = <<>>
    /\ lf = 0
    /\ fi_m = 0
    /\ actions = <<>>
    /\ hist = <<>>
    /\ apc = "start"

\* "set rest armature (bind-pose skeleton)"
SavePose ==
    /\ apc = "start"
    /\ apc' = "saved"
    /\ LET st == SaveLoop(objects, 1, [oldpose |-> <<>>, objs |-> objects, oldaction |-> Absent])
       IN  /\ oldpose' = st.oldpose
           /\ oldaction' = st.oldaction
           /\ objects' = st.objs
    /\ oldframe' = frame_current
    /\ frame_current' = 0
    /\ UNCHANGED <<objects0, frame0, animIn, acts, apos, actionCur, fi_m, actions>>
    /\ UNCHANGED <<boneVars, tabVars, skinVars, gridVars>>

\* the armature part
Skeleton ==
    /\ apc = "saved"
    /\ apc' = "ready"
    /\ LET st == ArmaturePart(objects,
                    [bones |-> bones, strs |-> strs, verts |-> vdict, idx |-> bidx,
                     use_skeleton |-> use_skeleton, use_animation |-> use_animation,
                     reports |-> reports])
       IN  IF use_skeleton
           THEN /\ bones' = st.bones
                /\ bidx' = st.idx
                /\ use_animation' = st.use_animation
                /\ reports' = st.reports
                /\ strs' = st.strs
                /\ vdict' = st.verts
                /\ use_skeleton' = st.use_skeleton
           ELSE UNCHANGED <<bones, bidx, use_animation, reports, strs, vdict, use_skeleton>>
    /\ UNCHANGED <<animIn, savedPose, acts, apos, actionCur, fi_m, actions>>
    /\ UNCHANGED <<opos, bpc, cmap, sceneVars, skinRest, gridRest>>

\* the head of the actions part
CollectActions ==
    /\ apc = "materials"
    /\ apc' = "actions"
    /\ apos' = 0
    /\ IF use_animation /\ use_skeleton /\ Len(bones) > 0
       THEN /\ acts' = collect(use_markers, markers, bpy_actions, frame_start, frame_end)
            /\ UNCHANGED reports
       ELSE /\ acts' = <<>>
            /\ reports' = IF use_animation THEN Append(reports, NoSkeleton) ELSE reports
    /\ UNCHANGED <<animIn, savedPose, actionCur, fi_m, actions>>
    /\ UNCHANGED <<boneRest, use_animation, tabVars, sceneVars, skinVars, gridVars>>

\* the head of one pass of "for a in acts"
StartAction ==
    /\ apc = "actions"
    /\ apos < Len(acts)
    /\ LET a == acts[apos + 1]
           st == ActionPoseLoop(a, 1, [objs |-> objects, raised |-> FALSE])
       IN  /\ objects' = st.objs
           /\ frame_current' = 0
           /\ IF st.raised
              THEN /\ apc' = "raised"
                   /\ UNCHANGED actionCur
              ELSE /\ apc' = "frames"
                   /\ frame' = a.st
                   /\ a2' = a.st
                   /\ lf' = 0
                   /\ frames' = <<>>
                   /\ lastpose' = [k \in 1..Len(bones) |->
                                      [pos |-> bones[k].pos, ori |-> bones[k].ori]]
                   /\ changed' = <<>>
                   /\ sampled' = <<>>
                   /\ hist' = <<>>
    /\ UNCHANGED <<objects0, frame0, animIn, savedPose, acts, apos, fi_m, actions>>
    /\ UNCHANGED <<boneVars, tabVars, skinVars, gridVars>>

\* one pass of "for frame in range(a[2], a[3] + 1)"; pss gives the pose of
\* every bone of every object at the frame
SampleFrame(pss) ==
    /\ apc = "frames"
    /\ frame <= acts[apos + 1].et
    /\ LET st == PoseObjectLoop(objects, pss, 1,
                    [verts |-> vdict, lastpose |-> lastpose, changed |-> <<>>,
                     sampled |-> <<>>, reports |-> reports])
           first2 == IF Len(frames) < 1 THEN frame ELSE a2
       IN  /\ vdict' = st.verts
           /\ lastpose' = st.lastpose
           /\ changed' = st.changed
           /\ sampled' = st.sampled
           /\ reports' = st.reports
           /\ IF Len(st.changed) > 0
              THEN /\ a2' = first2
                   /\ frames' = Append(frames, [t |-> msec(frame - first2, use_fps),
                                                changed |-> st.changed])
                   /\ lf' = frame
                   /\ fi_m' = IF Len(st.changed) > fi_m THEN Len(st.changed) ELSE fi_m
              ELSE UNCHANGED <<a2, frames, lf, fi_m>>
    /\ frame_current' = frame
    /\ frame' = frame + 1
    /\ hist' = Append(hist, pss)
    /\ UNCHANGED <<animIn, savedPose, acts, apos, actions, apc>>
    /\ UNCHANGED <<boneRest, use_animation, tabVars, objects, objects0, frame0, skinVars, gridRest>>

\* "if the action has at least one frame, save it"
EndAction ==
    /\ apc = "frames"
    /\ frame > acts[apos + 1].et
    /\ apc' = "actions"
    /\ apos' = apos + 1
    /\ LET un == uniquedict(strs, safestr(acts[apos + 1].name))
       IN  IF Len(frames) > 0
           THEN /\ strs' = un.l
                /\ actions' = Append(actions, [name |-> un.i,
                                               dur |-> msec(lf - a2 + 1, use_fps),
                                               frames |-> frames])
           ELSE UNCHANGED <<strs, actions>>
    /\ UNCHANGED <<animIn, savedPose, acts, actionCur, fi_m>>
    /\ UNCHANGED <<boneVars, cmap, sceneVars, skinVars, gridVars>>

\* "restore original armature"
RestorePose ==
    /\ apc = "actions"
    /\ apos = Len(acts)
    /\ apc' = "restored"
    /\ objects' = RestoreLoop(objects, 1, oldpose, oldaction)
    /\ frame_current' = oldframe
    /\ UNCHANGED <<objects0, frame0, animIn, savedPose, acts, apos, actionCur, fi_m, actions>>
    /\ UNCHANGED <<boneVars, tabVars, skinVars, gridVars>>

\* armatures of one bone with a pose position and animation data of their own
PoseArmature(n, pp, ad) ==
    [type |-> "ARMATURE",
     bones |-> <<[name |-> n, parent |-> Absent, p |-> BonePos(1), q |-> BoneQuat]>>,
     pose_position |-> pp, animation_data |-> ad]
PoseStates ==
    {<<pp, ad>> : pp \in {"REST", "POSE"},
                  ad \in {Absent, <<NoAction>>, <<NameA>>, <<NameB>>}}
PoseScenes ==
    {<<PoseArmature(NameA, x[1], x[2])>> : x \in PoseStates}
    \cup {<<PoseArmature(NameA, x[1], x[2]), PoseArmature(NameB, y[1], y[2])>>
            : x \in PoseStates, y \in PoseStates}
\* bpy.data.actions of the scenes
TwoActions == <<[name |-> NameA, st |-> 1, et |-> 2], [name |-> NameB, st |-> 1, et |-> 2]>>
\* an action whose curves hold one key only: its range begins and ends at it
OneFrameAction == <<[name |-> NameB, st |-> 2, et |-> 2]>>

----------------------------------------------------------------------------
(* Mesh data *)

MaxPolys == 2

NoGroups == "Mesh has no vertex groups, no skeletal animation possible"
BadMaterial == "Polygon face referencing a non-existent material"
NoMatch == "Vertex group name does not match any bone"
NoFace == [m |-> -1, v |-> <<-1, -1, -1>>, t |-> <<-1, -1, -1>>, n |-> <<-1, -1, -1>>]

\* "for m in mesh.materials[:]"; st = [strs, names]
RECURSIVE matnames(_, _, _)
matnames(ms, k, st) ==
    IF k > Len(ms) THEN st
    ELSE LET un == uniquedict(st.strs, safestr(ms[k].name))
         IN  IF ms[k] # NoMat /\ ms[k].name # <<>>
             THEN matnames(ms, k + 1, [strs |-> un.l, names |-> Append(st.names, un.i)])
             ELSE matnames(ms, k + 1, [st EXCEPT !.names = Append(st.names, -1)])

\* v.groups with bones[vg[g.group].name][0] looked up: NoBone where it raises
bonegroups(gs, bs) ==
    [k \in 1..Len(gs) |->
        LET kb == FindBone(bs, gs[k].name, 1)
        IN  [bone |-> IF kb = 0 THEN NoBone ELSE bs[kb].idx, w |-> gs[k].w]]

\* "s = uniquedict(skins, skin)" and "if len(skin) > nb_m"; sl: the outcome of
\* the loop over v.groups, sk: the skin after the sum is put right
poolskin(st, sl, sk, u) ==
    [st EXCEPT !.skins = u.l, !.s = u.i, !.si = sl.si,
               !.use_skeleton = ~sl.failed,
               !.reports = IF sl.failed THEN Append(st.reports, NoMatch) ELSE st.reports,
               !.nb_m = IF Len(sk) \div 2 > st.nb_m THEN Len(sk) \div 2 ELSE st.nb_m]
fixedskin(st, sl, sk) == poolskin(st, sl, sk, uniquedict(st.skins, sk))
loopedskin(st, sl) == fixedskin(st, sl, FixSum(sl.skin, sl.w, sl.si))
groupskin(ob, gs, st) ==
    IF st.use_skeleton /\ Len(ob.vertex_groups) > 0 /\ Len(gs) > 0 /\ SumWeights(gs) > 0
    THEN loopedskin(st, SkinLoop(gs, 1, SumWeights(gs),
                        [skin |-> <<>>, w |-> 0, wm |-> 0, si |-> st.si, failed |-> FALSE]))
    ELSE [st EXCEPT !.s = -1]

\* the steps of one pass of "for i, li in enumerate(poly.loop_indices)";
\* st = [cmap, skins, verts, tmaps, nb_m, si, use_skeleton, reports, c, s, face]
\* the colour of the loop: "c = uniquedict(cmap, ...)" or "c = 0"
loopcolor(ob, lp, st, colors) ==
    LET uc == uniquedict(st.cmap, lp.color)
    IN  IF colors /\ ob.colors THEN [st EXCEPT !.cmap = uc.l, !.c = uc.i]
        ELSE [st EXCEPT !.c = 0]

\* the skin of the loop, the code of VertexSkin
vertexskin(ob, lp, st) == groupskin(ob, bonegroups(lp.groups, bones), st)

\* "face[1][i] = uniquedict(verts, vert(round(v.co.x, digits), ..., 1.0, c, s))"
loopvertex(lp, i, st) ==
    LET uv == uniquedict(st.verts,
                    vert(pyround(lp.co[1]), pyround(lp.co[2]), pyround(lp.co[3]),
                         F(1, Unit(digits)), st.c, st.s))
    IN  [st EXCEPT !.verts = uv.l, !.face.v[i] = uv.i]

loopnormal_count(lp, i, st, normals) ==
    LET un == uniquedict(st.verts,
                    vert(pyround(lp.normal[1]), pyround(lp.normal[2]), pyround(lp.normal[3]),
                         F(1, Unit(digits)), 0, -1))
    IN  IF normals THEN [st EXCEPT !.verts = un.l, !.face.n[i] = Len(un.l)] ELSE st

\* "face[3][i] = uniquedict(verts, vert(round(no.x, digits), ..., 1.0, 0, -1))"
loopnormal(lp, i, st, normals) ==
    LET un == uniquedict(st.verts,
                    vert(pyround(lp.normal[1]), pyround(lp.normal[2]), pyround(lp.normal[3]),
                         F(1, Unit(digits)), 0, -1))
    IN  IF normals THEN [st EXCEPT !.verts = un.l, !.face.n[i] = un.i] ELSE st

\* "face[2][i] = uniquedict(tmaps, list(uv_layer[li].uv[:]))"
loopuv(ob, lp, i, st, uvs) ==
    LET ut == uniquedict(st.tmaps, lp.uv)
    IN  IF uvs /\ ob.uv THEN [st EXCEPT !.tmaps = ut.l, !.face.t[i] = ut.i] ELSE st

corner(ob, lp, i, st, normals, uvs, colors) ==
    loopuv(ob, lp, i,
           loopnormal(lp, i,
                      loopvertex(lp, i, vertexskin(ob, lp, loopcolor(ob, lp, st, colors))),
                      normals),
           uvs)

RECURSIVE CornerLoop(_, _, _, _, _, _, _)
CornerLoop(ob, loops, i, st, normals, uvs, colors) ==
    IF i > Len(loops) THEN st
    ELSE CornerLoop(ob, loops, i + 1, corner(ob, loops[i], i, st, normals, uvs, colors),
                    normals, uvs, colors)

facematerial_each(ob, poly, names, st) ==
    LET good == poly.material_index < Len(names)
        i == IF good THEN poly.material_index ELSE 0
    IN  IF Len(names) > 0
        THEN [st EXCEPT !.face = [NoFace EXCEPT !.m = names[i + 1]],
                        !.refmats = refmat(st.refmats, ob.materials[i + 1]),
                        !.badref = st.badref,
                        !.reports = IF good \/ poly.material_index \in st.badref
                                    THEN st.reports
                                    ELSE Append(st.reports, BadMaterial)]
        ELSE [st EXCEPT !.face = NoFace]

\* the head of one pass of "for pi, poly in enumerate(mesh.polygons)": the
\* material of the face; st = the fields of corner and [refmats, faces, badref]
facematerial(ob, poly, names, st) ==
    LET good == poly.material_index < Len(names)
        i == IF good THEN poly.material_index ELSE 0
    IN  IF Len(names) > 0
        THEN [st EXCEPT !.face = [NoFace EXCEPT !.m = names[i + 1]],
                        !.refmats = refmat(st.refmats, ob.materials[i + 1]),
                        !.badref = IF good THEN st.badref
                                   ELSE st.badref \cup {poly.material_index},
                        !.reports = IF good \/ poly.material_index \in st.badref
                                    THEN st.reports
                                    ELSE Append(st.reports, BadMaterial)]
        ELSE [st EXCEPT !.face = NoFace]

\* "faces.append(face)"
appendface(st) == [st EXCEPT !.faces = Append(st.faces, st.face)]

polygon(ob, poly, names, st, normals, uvs, colors) ==
    appendface(CornerLoop(ob, poly.loops, 1, facematerial(ob, poly, names, st),
                          normals, uvs, colors))

\* faces holds a face for every pass gone through, and looking at it settles
\* the value of one pass before the next begins
RECURSIVE PolygonLoop(_, _, _, _, _, _, _)
PolygonLoop(ob, k, names, st, normals, uvs, colors) ==
    IF k > Len(ob.polygons) \/ Len(st.faces) < k - 1 THEN st
    ELSE PolygonLoop(ob, k + 1, names,
                     polygon(ob, ob.polygons[k], names, st, normals, uvs, colors),
                     normals, uvs, colors)

\* the head of the body for one object of type MESH: the name of the model,
\* the vertex groups, the strings of matnames (mn)
meshhead(ob, st, mn, anim) ==
    [st EXCEPT !.use_name = IF st.use_name = <<>> THEN ob.name ELSE st.use_name,
               !.reports = IF ~(st.use_skeleton /\ Len(ob.vertex_groups) > 0)
                              /\ st.use_skeleton /\ anim
                           THEN Append(st.reports, NoGroups) ELSE st.reports,
               !.strs = mn.strs,
               !.badref = {}]

meshpolygons(ob, st, mn, normals, uvs, colors, anim) ==
    PolygonLoop(ob, 1, mn.names, meshhead(ob, st, mn, anim), normals, uvs, colors)

\* the body of the loop for one object of type MESH;
\* st = the fields of polygon and [strs, use_name]
meshobject(ob, st, normals, uvs, colors, mats, anim) ==
    meshpolygons(ob, st,
                 IF mats THEN matnames(ob.materials, 1, [strs |-> st.strs, names |-> <<>>])
                 ELSE [strs |-> st.strs, names |-> <<>>],
                 normals, uvs, colors, anim)

RECURSIVE MeshLoop(_, _, _, _, _, _, _, _)
MeshLoop(objs, k, st, normals, uvs, colors, mats, anim) ==
    IF k > Len(objs) THEN st
    ELSE MeshLoop(objs, k + 1,
                  IF objs[k].type = "MESH"
                  THEN meshobject(objs[k], st, normals, uvs, colors, mats, anim)
                  ELSE st,
                  normals, uvs, colors, mats, anim)

RECURSIVE InsertFace_before(_, _)
InsertFace_before(sorted, f) ==
    IF sorted = <<>> THEN <<f>>
    ELSE IF sorted[Len(sorted)].m < f.m THEN Append(sorted, f)
    ELSE Append(InsertFace_before(SubSeq(sorted, 1, Len(sorted) - 1), f), sorted[Len(sorted)])

\* list.sort(key=itemgetter(0)): stable, by the material reference
RECURSIVE InsertFace(_, _)
InsertFace(sorted, f) ==
    IF sorted = <<>> THEN <<f>>
    ELSE IF sorted[Len(sorted)].m <= f.m THEN Append(sorted, f)
    ELSE Append(InsertFace(SubSeq(sorted, 1, Len(sorted) - 1), f), sorted[Len(sorted)])
RECURSIVE sortfaces(_, _, _)
sortfaces(fs, k, sorted) ==
    IF k > Len(fs) THEN sorted ELSE sortfaces(fs, k + 1, InsertFace(sorted, fs[k]))

----------------------------------------------------------------------------
(* Binary writer *)

\* safestr(name, 2)
safestr2(name) ==
    LET kept == SelectSeq(name, LAMBDA c : Val(c) # ChCR)
    IN  StripRight(StripLeft([k \in 1..Len(kept) |->
                                IF Val(kept[k]) = ChLF THEN I(ChSpace) ELSE kept[k]]))
\* safestr(name, 1)
RECURSIVE crlf(_)
crlf(s) ==
    IF s = <<>> THEN <<>>
    ELSE (IF Val(Head(s)) = ChLF THEN <<I(ChCR), I(ChLF)>> ELSE <<Head(s)>>) \o crlf(Tail(s))
safestr1(name) ==
    StripRight(StripLeft(crlf(SelectSeq(name, LAMBDA c : Val(c) # ChCR))))

use_license == <<I(77), I(73), I(84)>>
use_comment == <<>>

\* bytes(s, 'utf-8') + pack("<b", 0) for a name of 7-bit characters
strz(s) == [k \in 1..Len(s) |-> Val(s[k])] \o <<0>>

\* b''.join(byte_list)
RECURSIVE join(_)
join(bl) == IF bl = <<>> THEN <<>> ELSE Head(bl) \o join(Tail(bl))

\* the string table: st = [st, stridx], o = len(st)
RECURSIVE stringtable(_, _, _)
stringtable(sl, k, st) ==
    IF k > Len(sl) THEN st
    ELSE stringtable(sl, k + 1, [st |-> st.st \o strz(sl[k]),
                                 stridx |-> Append(st.stridx, Len(st.st))])

pack_b(n) == IF n >= -128 /\ n < 128 THEN <<(n + 256) % 256>> ELSE PackError
pack_h(n) == IF n >= -32768 /\ n < 32768
             THEN <<(n + 65536) % 256, ((n + 65536) \div 256) % 256>> ELSE PackError
pack_I(n) == packI(n \div 65536, n % 65536)

\* pack("<f", x) and pack("<d", x), n = 4 and n = 8.  The bytes of the model
\* are not the IEEE-754 bits: the last carries the sign, the first three
\* the low 24 bits of the magnitude.
packfloat(neg, mag, n) ==
    [k \in 1..n |-> IF k = n THEN (IF neg THEN 128 ELSE 0)
                    ELSE IF k = 1 THEN mag % 256
                    ELSE IF k = 2 THEN (mag \div 256) % 256
                    ELSE IF k = 3 THEN (mag \div 65536) % 256
                    ELSE 0]

ChunkHEAD == <<72, 69, 65, 68>>
ChunkCMAP == <<67, 77, 65, 80>>
ChunkTMAP == <<84, 77, 65, 80>>
ChunkVRTS == <<86, 82, 84, 83>>
ChunkBONE == <<66, 79, 78, 69>>
ChunkMTRL == <<77, 84, 82, 76>>
ChunkMESH == <<77, 69, 83, 72>>
ChunkACTN == <<65, 67, 84, 78>>
ChunkOMD3 == <<79, 77, 68, 51>>
Magic3DMO == <<51, 68, 77, 79>>

\* tag + pack("<I", n) + payload
chunk(tag, n, payload) == tag \o pack_I(n) \o payload

nbsize(n) == IF n < 2 THEN 0 ELSE IF n = 2 THEN 1 ELSE IF n <= 4 THEN 2 ELSE 3

Shl(n, k) == n * (2 ^ k)

\* int(x * k) of a value given in tenths
tenthsint(x, k) == x.sg * ((x.mag * k) \div 10)

clamp01(x) == IF x.sg = -1 THEN F(1, 0) ELSE IF x.mag > 10 THEN F(1, 10) ELSE x

\* the widths and offsets the chunks share
\* L = [cmap, strs, verts, tmaps, bones, skins, faces, materials, actions,
\*      nb_m, fi_m, use_quality, digits, use_scale, use_name, use_author,
\*      use_uvs, use_normals, allow_unnormalized_uvs]
header(L) ==
    LET t == stringtable(L.strs, 1,
                [st |-> strz(safestr2(L.use_name)) \o strz(safestr2(use_license))
                            \o strz(safestr2(L.use_author)) \o strz(safestr1(use_comment)),
                 stridx |-> <<>>])
    IN  [st |-> t.st, stridx |-> t.stridx, o |-> Len(t.st),
         ci_s |-> idxsize(Len(L.cmap)), ti_s |-> idxsize(Len(L.tmaps)),
         vi_s |-> idxsize(Len(L.verts)), si_s |-> idxsize(Len(t.st)),
         bi_s |-> idxsize(Len(L.bones)), sk_s |-> idxsize(Len(L.skins)),
         fi_s |-> idxsize(Len(L.faces)), nb_s |-> nbsize(L.nb_m),
         fc_s |-> idxsize(L.fi_m)]

headchunk(L, H) ==
    LET flags == Shl(L.use_quality, 0) + Shl(H.vi_s, 2) + Shl(H.si_s, 4) + Shl(H.ci_s, 6)
                    + Shl(H.ti_s, 8) + Shl(H.bi_s, 10) + Shl(H.nb_s, 12)
                    + Shl(H.sk_s, 14) + Shl(H.fc_s, 16) + Shl(H.fi_s, 20)
        hd == packfloat(L.use_scale.sg = -1, L.use_scale.mag, 4) \o pack_I(flags) \o H.st
    IN  <<chunk(ChunkHEAD, Len(hd) + 8, hd)>>

cmapchunk(L, H) ==
    IF Len(L.cmap) > 0 /\ H.ci_s < 4
    THEN <<chunk(ChunkCMAP, Len(L.cmap) * 4 + 8,
                 join([k \in 1..Len(L.cmap) |->
                        join([i \in 1..4 |-> packB(tenthsint(L.cmap[k][i], 255))])]))>>
    ELSE <<>>

tmapbytes_ff(t, q) ==
    IF q = 0 THEN packB(tenthsint(t[1], 255)) \o packB(tenthsint(t[2], 255))
    ELSE IF q = 1 THEN packH(tenthsint(t[1], 65535)) \o packH(tenthsint(t[2], 65535))
    ELSE packfloat(t[1].sg = -1, t[1].mag, 4) \o packfloat(t[2].sg = -1, t[2].mag, 4)

tmapbytes(t, q) ==
    IF q = 0 THEN packB(tenthsint(t[1], 255)) \o packB(tenthsint(t[2], 255))
    ELSE IF q = 1 THEN packH(tenthsint(t[1], 65535)) \o packH(tenthsint(t[2], 65535))
    ELSE IF q = 3 THEN packfloat(t[1].sg = -1, t[1].mag, 8) \o packfloat(t[2].sg = -1, t[2].mag, 8)
    ELSE packfloat(t[1].sg = -1, t[1].mag, 4) \o packfloat(t[2].sg = -1, t[2].mag, 4)

tmapchunk(L, H) ==
    IF Len(L.tmaps) > 0
    THEN <<chunk(ChunkTMAP, Len(L.tmaps) * 2 * (2 ^ L.use_quality) + 8,
                 join([k \in 1..Len(L.tmaps) |->
                        LET t == L.tmaps[k]
                            out == Val(t[1]) < 0 \/ Val(t[1]) > 10 \/ Val(t[2]) < 0 \/ Val(t[2]) > 10
                        IN  tmapbytes(IF out /\ ~L.allow_unnormalized_uvs
                                      THEN <<clamp01(t[1]), clamp01(t[2])>> ELSE t,
                                      L.use_quality)]))>>
    ELSE <<>>

\* one coordinate of the vertex list
coordbytes(v, q, d) ==
    LET n == emitnum(v, q, FALSE, d)
        sn == IF n.neg THEN -n.mag ELSE n.mag
    IN  IF q = 0 THEN pack_b(sn)
        ELSE IF q = 1 THEN pack_h(sn)
        ELSE IF q = 3 THEN packfloat(n.neg, n.mag, 8)
        ELSE packfloat(n.neg, n.mag, 4)

vrtschunk(L, H) ==
    IF Len(L.verts) > 0
    THEN LET o == join([k \in 1..Len(L.verts) |->
                    LET v == L.verts[k]
                    IN  join([i \in 1..4 |-> coordbytes(v[i], L.use_quality, L.digits)])
                            \o addidx(H.ci_s, Val(v[5])) \o addidx(H.sk_s, Val(v[6]))])
         IN  <<chunk(ChunkVRTS, Len(o) + 8, o)>>
    ELSE <<>>

Min2(a, b) == IF a < b THEN a ELSE b

skinbytes(s, H) ==
    LET n == Len(s) \div 2
    IN  (IF H.nb_s > 0
         THEN join([i \in 1..(2 ^ H.nb_s) |->
                        IF i - 1 >= n THEN packB(0) ELSE packB(Val(s[2 * i])) ])
         ELSE <<>>)
        \o join([i \in 1..Min2(n, 2 ^ H.nb_s) |->
                    IF Val(s[2 * i]) # 0 THEN addidx(H.bi_s, Val(s[2 * i - 1])) ELSE <<>>])

bonechunk(L, H) ==
    IF Len(L.bones) > 0 \/ Len(L.skins) > 0
    THEN LET o == addidx(H.bi_s, Len(L.bones)) \o addidx(H.sk_s, Len(L.skins))
                  \o join([k \in 1..Len(L.bones) |->
                        LET b == L.bones[k]
                        IN  addidx(H.bi_s, b.a) \o addidx(H.si_s, H.stridx[b.n + 1])
                                \o addidx(H.vi_s, b.pos) \o addidx(H.vi_s, b.ori)])
                  \o join([k \in 1..Len(L.skins) |-> skinbytes(L.skins[k], H)])
         IN  <<chunk(ChunkBONE, Len(o) + 8, o)>>
    ELSE <<>>

\* mat_property_map[p[0]][0]
propformat(key) ==
    LET k == CHOOSE j \in 1..Len(mat_property_map) : mat_property_map[j].key = key
    IN  mat_property_map[k].fmt

propbytes(p, L, H) ==
    packB(p[1]) \o
    (IF propformat(p[1]) \in {"color", "gscale"} THEN addidx(H.ci_s, Val(p[2]))
     ELSE IF propformat(p[1]) \in {"byte", "//byte"} THEN packB(Val(p[2]))
     ELSE IF p[1] >= 128 THEN addidx(H.si_s, H.stridx[Val(p[2]) + 1])
     ELSE packfloat(p[2].sg = -1, p[2].mag, 4))

mtrlchunks(L, H) ==
    [k \in 1..Len(L.materials) |->
        LET m == L.materials[k]
            o == addidx(H.si_s, H.stridx[m.name + 1])
                 \o join([j \in 1..Len(m.props) |-> propbytes(m.props[j], L, H)])
        IN  chunk(ChunkMTRL, Len(o) + 8, o)]

boolint(b) == IF b THEN 1 ELSE 0

\* the records of the faces from the k-th on, l the material of the face before
RECURSIVE facebytes(_, _, _, _, _)
facebytes(fs, k, l, L, H) ==
    IF k > Len(fs) THEN <<>>
    ELSE LET f == fs[k]
             marker == IF l # f.m THEN pack_b(0) \o addidx(H.si_s, H.stridx[f.m + 1]) ELSE <<>>
             rec == pack_b(Shl(Len(f.v), 4) + boolint(L.use_uvs) + Shl(boolint(L.use_normals), 1))
             refs == join([i \in 1..Len(f.v) |->
                        addidx(H.vi_s, f.v[i])
                        \o (IF L.use_uvs THEN addidx(H.ti_s, f.t[i]) ELSE <<>>)
                        \o (IF L.use_normals THEN addidx(H.vi_s, f.n[i]) ELSE <<>>)])
         IN  marker \o rec \o refs \o facebytes(fs, k + 1, f.m, L, H)

meshchunk(L, H) ==
    IF Len(L.faces) > 0
    THEN LET o == facebytes(L.faces, 1, -1, L, H)
         IN  <<chunk(ChunkMESH, Len(o) + 8, o)>>
    ELSE <<>>

actnchunks(L, H) ==
    LET one(a) ==
            LET o == addidx(H.si_s, H.stridx[a.name + 1]) \o packH(Len(a.frames)) \o pack_I(a.dur)
                     \o join([j \in 1..Len(a.frames) |->
                            LET f == a.frames[j]
                            IN  pack_I(f.t) \o addidx(H.fc_s, Len(f.changed))
                                \o join([i \in 1..Len(f.changed) |->
                                        addidx(H.bi_s, f.changed[i].idx)
                                        \o addidx(H.vi_s, f.changed[i].pos)
                                        \o addidx(H.vi_s, f.changed[i].ori)])])
            IN  chunk(ChunkACTN, Len(o) + 8, o)
        kept == SelectSeq(L.actions, LAMBDA a : Len(a.frames) >= 1)
    IN  [k \in 1..Len(kept) |-> one(kept[k])]

\* the chunks in the order they are appended to buf
chunks(L, H) ==
    headchunk(L, H) \o cmapchunk(L, H) \o tmapchunk(L, H) \o vrtschunk(L, H)
        \o bonechunk(L, H) \o mtrlchunks(L, H) \o meshchunk(L, H) \o actnchunks(L, H)
chunklist(L) == chunks(L, header(L))

\* a negative byte stands where struct.pack raises
raises(bs) == \E k \in 1..Len(bs) : bs[k] < 0

\* zlib.compress(buf, 9): the two header bytes of level 9, the deflate data,
\* of which the model knows the length zl only, and the Adler-32 checksum
AdlerMod == 65521
\* the sum of w(k) * bs[k] for k in lo..hi, w(k) being 1 or n - k + 1
RECURSIVE SumBytes(_, _, _, _)
SumBytes(bs, lo, hi, weighted) ==
    IF lo > hi THEN 0
    ELSE IF lo = hi THEN (IF weighted THEN Len(bs) - lo + 1 ELSE 1) * bs[lo]
    ELSE SumBytes(bs, lo, (lo + hi) \div 2, weighted)
            + SumBytes(bs, (lo + hi) \div 2 + 1, hi, weighted)
\* pack(">I", zlib.adler32(bs))
adler32(bs) ==
    LET a == (1 + SumBytes(bs, 1, Len(bs), FALSE)) % AdlerMod
        b == (Len(bs) + SumBytes(bs, 1, Len(bs), TRUE)) % AdlerMod
    IN  <<b \div 256, b % 256, a \div 256, a % 256>>
MaxDeflate == 2
compress(bs, zl) == <<120, 218>> \o [k \in 1..zl |-> 0] \o adler32(bs)

\* the lists made of the dicts
bonelist(bs) == dict2list([k \in 1..Len(bs) |-> [h |-> k, v |-> <<bs[k].idx, bs[k]>>]])

FileIdle ==
    /\ use_normals = FALSE
    /\ use_uvs = FALSE
    /\ use_colors = FALSE
    /\ use_strmcompress = FALSE
    /\ allow_unnormalized_uvs = FALSE
    /\ use_name = <<>>
    /\ use_author = <<>>
    /\ tmaps = <<>>
    /\ faces = <<>>
    /\ lists = <<>>
    /\ buf = <<>>
    /\ file = <<>>

fileIn == <<use_normals, use_uvs, use_colors, use_strmcompress, allow_unnormalized_uvs, use_author>>
animRest == <<animIn, savedPose, acts, apos, actionCur, fi_m, actions>>

\* the mesh part: every object, then faces.sort
MeshPart ==
    /\ apc = "ready"
    /\ apc' = "meshed"
    /\ \E st \in {MeshLoop(objects, 1,
                    [cmap |-> cmap, skins |-> skins, verts |-> vdict, tmaps |-> tmaps,
                     nb_m |-> nb_m, si |-> si, use_skeleton |-> use_skeleton,
                     reports |-> reports, c |-> 0, s |-> -1, face |-> NoFace,
                     refmats |-> refmats, faces |-> faces, badref |-> {}, strs |-> strs,
                     use_name |-> use_name],
                    use_normals, use_uvs, use_colors, use_materials, use_animation)} :
           /\ cmap' = st.cmap
           /\ strs' = st.strs
           /\ skins' = st.skins
           /\ nb_m' = st.nb_m
           /\ si' = st.si
           /\ use_skeleton' = st.use_skeleton
           /\ vdict' = st.verts
           /\ reports' = st.reports
           /\ refmats' = st.refmats
           /\ tmaps' = st.tmaps
           /\ use_name' = st.use_name
           /\ faces' = sortfaces(st.faces, 1, <<>>)
    /\ UNCHANGED <<groups, skin, sref, nskinned, gridRest, bones, bidx, use_animation, opos, bpc>>
    /\ UNCHANGED <<use_materials, refpos, props, kd, materials, fileIn, lists, buf, file, animRest>>

\* the materials part
MaterialsPart ==
    /\ apc = "meshed"
    /\ apc' = "materials"
    /\ \E st \in {MaterialLoop(refmats, 1, [props |-> props, cmap |-> cmap, strs |-> strs,
                                               d |-> kd, materials |-> materials])} :
           IF use_materials
           THEN /\ props' = st.props
                /\ kd' = st.d
                /\ cmap' = st.cmap
                /\ strs' = st.strs
                /\ materials' = st.materials
                /\ refpos' = Len(refmats)
           ELSE UNCHANGED <<props, kd, cmap, strs, materials, refpos>>
    /\ UNCHANGED <<use_materials, refmats, animRest>>

\* "Let's convert those into lists now"
ConvertLists ==
    /\ apc = "restored"
    /\ gpc = "mesh"
    /\ gpc' = "lists"
    /\ verts' = dict2list(vdict)
    /\ lists' = [cmap |-> dict2list(cmap), strs |-> dict2list(strs),
                 tmaps |-> dict2list(tmaps), bones |-> bonelist(bones),
                 skins |-> dict2list(skins)]
    /\ UNCHANGED <<scale_req, use_scale, vdict, sfac, use_ascii, vrts, declared>>
    /\ UNCHANGED <<fileIn, use_name, tmaps, faces, buf, file>>

\* what the writer reads
FileLists ==
    [cmap |-> lists.cmap, strs |-> lists.strs, verts |-> verts,
     tmaps |-> lists.tmaps, bones |-> lists.bones, skins |-> lists.skins,
     faces |-> faces, materials |-> materials, actions |-> actions,
     nb_m |-> nb_m, fi_m |-> fi_m, use_quality |-> use_quality,
     digits |-> digits, use_scale |-> use_scale, use_name |-> use_name,
     use_author |-> use_author, use_uvs |-> use_uvs, use_normals |-> use_normals,
     allow_unnormalized_uvs |-> allow_unnormalized_uvs]

\* "add file header and write out file"
filebytes_len(out) == Magic3DMO \o pack_I(Len(out)) \o out

filebytes(out) == Magic3DMO \o pack_I(Len(out) + 8) \o out

\* "save Model 3D binary variant"; zl is the length of the deflate data
WriteBinary(zl) ==
    /\ gpc = "scaled"
    /\ apc = "restored"
    /\ \E b \in {join(chunklist(FileLists)) \o ChunkOMD3} :
           IF raises(b)
           THEN /\ gpc' = "raised"
                /\ UNCHANGED <<buf, file>>
           ELSE /\ gpc' = "written"
                /\ buf' = b
                /\ file' = filebytes(IF use_strmcompress THEN compress(b, zl) ELSE b)
    /\ use_ascii' = FALSE
    /\ declared' = <<use_scale>>
    /\ vrts' = [k \in 1..Len(verts) |->
                  [a \in 1..4 |-> emitnum(verts[k][a], use_quality, FALSE, digits)]]
    /\ UNCHANGED <<scale_req, use_scale, vdict, verts, sfac>>
    /\ UNCHANGED <<fileIn, use_name, tmaps, faces, lists>>

----------------------------------------------------------------------------
(* Scenes of the whole export *)

Red == <<Tenths(10), Tenths(0), Tenths(0), Tenths(10)>>
HalfBlue == <<Tenths(0), Tenths(0), Tenths(5), Tenths(5)>>

\* the k-th loop of a triangle of edge sz in the plane z = 0, the third UV
\* outside 0..1; gs: the vertex groups of the three vertices
TriLoop(k, sz, gs) ==
    [co |-> IF k = 1 THEN <<RawZero, RawZero, RawNegZero>>
            ELSE IF k = 2 THEN <<RawUnits(1, sz, digits), RawZero, RawZero>>
            ELSE <<RawZero, RawUnits(1, sz, digits), RawTick(-1, 1)>>,
     normal |-> <<RawZero, RawZero, RawUnits(1, 1, digits)>>,
     uv |-> IF k = 1 THEN <<Tenths(0), Tenths(0)>>
            ELSE IF k = 2 THEN <<Tenths(10), Tenths(0)>>
            ELSE <<Tenths(5), Tenths(15)>>,
     color |-> IF k = 3 THEN HalfBlue ELSE Red,
     groups |-> gs[k]]

Triangle(mi, sz, gs) ==
    [material_index |-> mi, loops |-> [k \in 1..3 |-> TriLoop(k, sz, gs)]]

\* the materials of the meshes: opaque or half transparent, with or without a
\* texture image
FileMaterial(n, img, al) ==
    CHOOSE m \in Materials :
        /\ m.name = n
        /\ m.node_image = (IF img THEN <<ImageName>> ELSE Absent)
        /\ m.base_color_texture = <<>>
        /\ Len(m.base_color) = 3
        /\ m.metallic = Tenths(0)
        /\ m.specular = Tenths(5)
        /\ m.alpha = al

NoVertexGroups == <<<<>>, <<>>, <<>>>>
\* the vertex groups of the three vertices: one bone each, two bones for the
\* third, or a group that is no bone for the second
VertexGroups ==
    { <<<<[name |-> NameA, w |-> 1]>>, <<[name |-> NameA, w |-> 1]>>, <<[name |-> NameB, w |-> 1]>>>>,
      <<<<[name |-> NameA, w |-> 1]>>, <<>>,
        <<[name |-> NameA, w |-> 1], [name |-> NameB, w |-> 2]>>>>,
      <<<<[name |-> NameA, w |-> 1]>>, <<[name |-> NameA_B, w |-> 1]>>,
        <<[name |-> NameB, w |-> 1]>>>> }

mesh(polys, mats, hasuv, hascol, vgnames) ==
    [type |-> "MESH", bones |-> <<>>, pose_position |-> "POSE", animation_data |-> Absent,
     name |-> NameAB, vertex_groups |-> vgnames, uv |-> hasuv, colors |-> hascol,
     materials |-> mats, polygons |-> polys]

\* meshes of one triangle and one material
OneTriangle ==
    {mesh(<<Triangle(0, sz, NoVertexGroups)>>, <<FileMaterial(NameA, img, al)>>, uv, col, <<>>)
        : sz \in 1..2, img \in BOOLEAN, al \in {Tenths(10), Tenths(5)},
          uv \in BOOLEAN, col \in BOOLEAN}
\* meshes of MaxPolys triangles: two materials met in the order 1, 0, an empty
\* material slot, or a material index beyond the slots
ManyTriangles ==
    {mesh([k \in 1..MaxPolys |-> Triangle(IF k = 1 THEN mi ELSE 0, k, NoVertexGroups)],
          mats, TRUE, FALSE, <<>>)
        : mi \in 1..2,
          mats \in {<<FileMaterial(NameA, FALSE, Tenths(10)), FileMaterial(NameB, TRUE, Tenths(5))>>,
                    <<FileMaterial(NameA, FALSE, Tenths(10)), NoMat>>,
                    <<>>}}
\* skinned meshes
SkinnedMeshes ==
    {mesh(<<Triangle(0, 1, gs)>>, <<FileMaterial(NameA, FALSE, Tenths(10))>>, FALSE, FALSE,
          <<NameA, NameB>>)
        : gs \in VertexGroups}

OneAction == <<[name |-> NameB, st |-> 1, et |-> 2]>>

\* an export: the objects and the options
Export(objs, o, acts_, author) ==
    [objects |-> objs, normals |-> o.normals, uvs |-> o.uvs, colors |-> o.colors,
     strm |-> o.strm, req |-> o.req, grid |-> o.grid, unnorm |-> o.unnorm,
     materials |-> o.materials, actions |-> acts_, author |-> author]

Options(normals, uvs, colors, strm, rq, grid, unnorm, mats) ==
    [normals |-> normals, uvs |-> uvs, colors |-> colors, strm |-> strm, req |-> rq,
     grid |-> grid, unnorm |-> unnorm, materials |-> mats]

Exports ==
    {Export(<<m>>, Options(n, u, c, s, rq, g, FALSE, TRUE), <<>>, <<>>)
        : m \in OneTriangle, n \in BOOLEAN, u \in BOOLEAN, c \in BOOLEAN, s \in BOOLEAN,
          rq \in 0..3, g \in BOOLEAN}
    \cup
    {Export(<<m>>, Options(n, TRUE, FALSE, s, rq, TRUE, un, mt), <<>>, NameA)
        : m \in ManyTriangles, n \in BOOLEAN, s \in BOOLEAN, rq \in {0, 3},
          un \in BOOLEAN, mt \in BOOLEAN}
    \cup
    {Export(<<TwoBones, m>>, Options(n, FALSE, FALSE, s, rq, TRUE, FALSE, TRUE), a, <<>>)
        : m \in SkinnedMeshes, n \in BOOLEAN, s \in BOOLEAN, rq \in {0, 2}, a \in {<<>>, OneAction}}
    \cup
    {Export(sc \o <<m>>, Options(FALSE, FALSE, FALSE, FALSE, 0, TRUE, FALSE, TRUE), OneAction, <<>>)
        : m \in SkinnedMeshes,
          sc \in {<<TwoBones, PoseArmature(NameA_B, "POSE", <<NoAction>>)>>,
                  <<PoseArmature(NameAB, "POSE", <<NoAction>>), TwoBones>>,
                  <<PoseArmature(NameAB, "POSE", <<NoAction>>),
                    PoseArmature(NameA_B, "POSE", <<NoAction>>), TwoBones>>}}

\* meshes of MaxPolys triangles with every choice of material indices, over
\* two material slots, the second one empty or not
PatternMeshes ==
    {mesh([k \in 1..MaxPolys |-> Triangle(idx_[k], k, NoVertexGroups)], mats, TRUE, FALSE, <<>>)
        : idx_ \in [1..MaxPolys -> 0..3],
          mats \in {<<FileMaterial(NameA, FALSE, Tenths(10)), FileMaterial(NameB, TRUE, Tenths(5))>>,
                    <<FileMaterial(NameA, FALSE, Tenths(10)), NoMat>>}}
\* meshes whose triangles all have the material index b
PlainMeshes ==
    {mesh([k \in 1..MaxPolys |-> Triangle(b, k + 2, NoVertexGroups)], mats, TRUE, FALSE, <<>>)
        : b \in 1..2, mats \in {<<FileMaterial(NameB, TRUE, Tenths(5))>>}}
\* exports of two meshes
MeshExports ==
    {Export(<<m1, m2>>, Options(TRUE, TRUE, FALSE, FALSE, 0, TRUE, FALSE, mt), <<>>, NameA)
        : m1 \in PatternMeshes, m2 \in PlainMeshes, mt \in BOOLEAN}

----------------------------------------------------------------------------
(* Frame timestamps *)

MaxFps == 120
DefaultFps == 25
MaxSpan == 20

StampIdle ==
    /\ fps_req = DefaultFps
    /\ span = 0
    /\ stamp = <<>>
    /\ tpc = "fps"

\* "if use_fps < 1 or use_fps > 120: use_fps = 25"
ClampFps ==
    /\ tpc = "fps"
    /\ tpc' = "span"
    /\ use_fps' = IF use_fps < 1 \/ use_fps > MaxFps THEN DefaultFps ELSE use_fps
    /\ UNCHANGED <<fps_req, span, stamp>>
    /\ UNCHANGED <<use_markers, markers, bpy_actions, frame_start, frame_end, savedPose, acts,
                   apos, actionCur, fi_m, actions, apc>>

\* "int((frame - a[2]) * mpf)" for a recorded frame n frames after the first
Stamp(n) ==
    /\ tpc = "span"
    /\ tpc' = "done"
    /\ span' = n
    /\ stamp' = <<msec(n, use_fps)>>
    /\ UNCHANGED fps_req

----------------------------------------------------------------------------
(* Specifications *)

vars == <<poolVars, idxVars, qualVars, skinVars, gridVars, tabVars, sceneVars, boneVars, matVars, animVars, fileVars, stampVars>>

InitPool ==
    /\ PoolIdle /\ IdxIdle /\ QualIdle /\ SkinIdle /\ GridIdle /\ TabIdle /\ SceneIdle /\ BoneIdle /\ MatIdle /\ AnimIdle /\ FileIdle /\ StampIdle
NextPool ==
    \/ \E e \in PoolValues : Intern(e) /\ UNCHANGED <<idxVars, qualVars, skinVars, gridVars, tabVars, sceneVars, boneVars, matVars, animVars, fileVars, stampVars>>
    \/ Convert /\ UNCHANGED <<idxVars, qualVars, skinVars, gridVars, tabVars, sceneVars, boneVars, matVars, animVars, fileVars, stampVars>>
SpecPool == InitPool /\ [][NextPool]_vars

InitIdx ==
    /\ PoolIdle /\ QualIdle /\ SkinIdle /\ GridIdle /\ TabIdle /\ SceneIdle /\ BoneIdle /\ MatIdle /\ AnimIdle /\ FileIdle /\ StampIdle
    /\ cnt \in Counts
    /\ fmt = -1
    /\ idx = 0
    /\ enc = <<>>
    /\ ipc = "count"
NextIdx ==
    \/ SelectWidth /\ UNCHANGED <<poolVars, qualVars, skinVars, gridVars, tabVars, sceneVars, boneVars, matVars, animVars, fileVars, stampVars>>
    \/ \E n \in IndexCands(cnt) : WriteIndex(n) /\ UNCHANGED <<poolVars, qualVars, skinVars, gridVars, tabVars, sceneVars, boneVars, matVars, animVars, fileVars, stampVars>>
SpecIdx == InitIdx /\ [][NextIdx]_vars

InitQuality ==
    /\ PoolIdle /\ IdxIdle /\ SkinIdle /\ GridIdle /\ TabIdle /\ SceneIdle /\ BoneIdle /\ MatIdle /\ AnimIdle /\ FileIdle /\ StampIdle
    /\ req \in Requests
    /\ npoly \in PolyCounts
    /\ use_gridcompress \in BOOLEAN
    /\ use_quality = -1
    /\ digits = 0
    /\ qpc = "start"
NextQuality ==
    \/ SelectQuality /\ UNCHANGED <<poolVars, idxVars, skinVars, gridVars, tabVars, sceneVars, boneVars, matVars, animVars, fileVars, stampVars>>
    \/ SelectDigits /\ UNCHANGED <<poolVars, idxVars, skinVars, gridVars, tabVars, sceneVars, boneVars, matVars, animVars, fileVars, stampVars>>
SpecQuality == InitQuality /\ [][NextQuality]_vars

InitSkin ==
    /\ PoolIdle /\ IdxIdle /\ QualIdle /\ SkinIdle /\ GridIdle /\ TabIdle /\ SceneIdle /\ BoneIdle /\ MatIdle /\ AnimIdle /\ FileIdle /\ StampIdle
NextSkin ==
    \/ \E gs \in GroupInputs : VertexSkin(gs) /\ UNCHANGED <<poolVars, idxVars, qualVars, gridVars, tabVars, sceneVars, boneVars, matVars, animVars, fileVars, stampVars>>
SpecSkin == InitSkin /\ [][NextSkin]_vars

\* the options are decided (explicit tier, no polygons counted) before the
\* tables are filled
InitGrid ==
    /\ PoolIdle /\ IdxIdle /\ SkinIdle /\ TabIdle /\ SceneIdle /\ BoneIdle /\ MatIdle /\ AnimIdle /\ FileIdle /\ StampIdle
    /\ req \in 0..3
    /\ npoly = 0
    /\ use_gridcompress \in BOOLEAN
    /\ use_quality = quality(req, npoly, use_gridcompress)
    /\ digits = digitsfor(use_quality)
    /\ qpc = "digits"
    /\ scale_req \in ScaleRequests(digits)
    /\ use_scale = scale_req
    /\ vdict = <<>>
    /\ verts = <<>>
    /\ sfac = <<>>
    /\ use_ascii = FALSE
    /\ vrts = <<>>
    /\ declared = <<>>
    /\ gpc = "mesh"
NextGrid ==
    \/ \E p \in RawPositions(digits) : AddPosition(p) /\ UNCHANGED <<poolVars, idxVars, qualVars, skinVars, tabVars, sceneVars, boneVars, matVars, animVars, fileVars, stampVars>>
    \/ \E q \in RawQuats(digits) : AddOrientation(q) /\ UNCHANGED <<poolVars, idxVars, qualVars, skinVars, tabVars, sceneVars, boneVars, matVars, animVars, fileVars, stampVars>>
    \/ ConvertVerts /\ UNCHANGED <<poolVars, idxVars, qualVars, skinVars, tabVars, sceneVars, boneVars, matVars, animVars, fileVars, stampVars>>
    \/ GridCompress /\ UNCHANGED <<poolVars, idxVars, qualVars, skinVars, tabVars, sceneVars, boneVars, matVars, animVars, fileVars, stampVars>>
    \/ \E a \in BOOLEAN : Emit(a) /\ UNCHANGED <<poolVars, idxVars, qualVars, skinVars, tabVars, sceneVars, boneVars, matVars, animVars, fileVars, stampVars>>
SpecGrid == InitGrid /\ [][NextGrid]_vars

InitMaterial ==
    /\ PoolIdle /\ IdxIdle /\ QualIdle /\ SkinIdle /\ GridIdle /\ TabIdle /\ SceneIdle /\ BoneIdle /\ AnimIdle /\ FileIdle /\ StampIdle
    /\ use_materials \in BOOLEAN
    /\ refmats = <<>>
    /\ refpos = 0
    /\ props = <<>>
    /\ kd = Absent
    /\ materials = <<>>
NextMaterial ==
    \/ \E m \in Materials \cup {NoMat} : RefMaterial(m) /\ UNCHANGED <<poolVars, idxVars, qualVars, skinVars, gridVars, sceneVars, boneVars, animVars, fileVars, stampVars>>
    \/ EncodeMaterial /\ UNCHANGED <<poolVars, idxVars, qualVars, skinVars, gridVars, sceneVars, boneVars, animVars, fileVars, stampVars>>
SpecMaterial == InitMaterial /\ [][NextMaterial]_vars

\* the armature part runs when use_skeleton holds after "if use_animation:
\* use_skeleton = True"
InitBones ==
    /\ PoolIdle /\ IdxIdle /\ GridIdle /\ TabIdle /\ MatIdle /\ AnimIdle /\ FileIdle /\ StampIdle
    /\ req = 0
    /\ npoly = 0
    /\ use_gridcompress = TRUE
    /\ use_quality = quality(req, npoly, use_gridcompress)
    /\ digits = digitsfor(use_quality)
    /\ qpc = "digits"
    /\ objects \in Scenes(MaxObjects)
    /\ frame_current = 0
    /\ objects0 = objects
    /\ frame0 = 0
    /\ bones = <<>>
    /\ bidx = 0
    /\ use_animation \in BOOLEAN
    /\ reports = <<>>
    /\ opos = 0
    /\ bpc = "armature"
    /\ groups = <<>>
    /\ skin = <<>>
    /\ sref = -1
    /\ si = -1
    /\ skins = <<>>
    /\ nb_m = 0
    /\ use_skeleton = TRUE
    /\ nskinned = 0
NextBones ==
    \/ ArmatureObject /\ UNCHANGED <<poolVars, idxVars, qualVars, matVars, animVars, fileVars, stampVars>>
    \/ EndArmature /\ UNCHANGED <<poolVars, idxVars, qualVars, matVars, animVars, fileVars, stampVars>>
SpecBones == InitBones /\ [][NextBones]_vars

\* one armature of two bones, animated over MaxFrames frames
InitAnim ==
    /\ PoolIdle /\ IdxIdle /\ SkinIdle /\ GridIdle /\ TabIdle /\ MatIdle /\ FileIdle /\ StampIdle
    /\ req = 0
    /\ npoly = 0
    /\ use_gridcompress = TRUE
    /\ use_quality = quality(req, npoly, use_gridcompress)
    /\ digits = digitsfor(use_quality)
    /\ qpc = "digits"
    /\ objects = <<TwoBones>>
    /\ frame_current = 1
    /\ objects0 = objects
    /\ frame0 = frame_current
    /\ bones = <<>>
    /\ bidx = 0
    /\ use_animation = TRUE
    /\ reports = <<>>
    /\ opos = 0
    /\ bpc = "armature"
    /\ use_fps = 25
    /\ use_markers = FALSE
    /\ markers = <<>>
    /\ bpy_actions \in {<<>>, <<[name |-> NameB, st |-> 1, et |-> MaxFrames]>>}
    /\ frame_start = 1
    /\ frame_end = MaxFrames
    /\ oldframe = 0
    /\ oldpose = <<>>
    /\ oldaction = Absent
    /\ acts = <<>>
    /\ apos = 0
    /\ frame = 0
    /\ a2 = 0
    /\ lastpose = <<>>
    /\ frames = <<>>
    /\ changed = <<>>
    /\ sampled = <<>>
    /\ lf = 0
    /\ fi_m = 0
    /\ actions = <<>>
    /\ hist = <<>>
    /\ apc = "start"
NextAnim ==
    \/ SavePose /\ UNCHANGED <<poolVars, idxVars, qualVars, matVars, fileVars, stampVars>>
    \/ Skeleton /\ UNCHANGED <<poolVars, idxVars, qualVars, matVars, fileVars, stampVars>>
    \/ MeshPart /\ UNCHANGED <<poolVars, idxVars, qualVars, sceneVars, stampVars>>
    \/ MaterialsPart /\ UNCHANGED <<poolVars, idxVars, qualVars, skinVars, gridVars, sceneVars, boneVars, fileVars, stampVars>>
    \/ CollectActions /\ UNCHANGED <<poolVars, idxVars, qualVars, matVars, fileVars, stampVars>>
    \/ StartAction /\ UNCHANGED <<poolVars, idxVars, qualVars, matVars, fileVars, stampVars>>
    \/ \E pss \in ScenePoses(objects) : SampleFrame(pss) /\ UNCHANGED <<poolVars, idxVars, qualVars, matVars, fileVars, stampVars>>
    \/ EndAction /\ UNCHANGED <<poolVars, idxVars, qualVars, matVars, fileVars, stampVars>>
    \/ RestorePose /\ UNCHANGED <<poolVars, idxVars, qualVars, matVars, fileVars, stampVars>>
SpecAnim == InitAnim /\ [][NextAnim]_vars

\* one or two armatures with pose states of their own; use_animation turns
\* use_skeleton on
InitPose ==
    /\ PoolIdle /\ IdxIdle /\ GridIdle /\ TabIdle /\ MatIdle /\ FileIdle /\ StampIdle
    /\ req = 0
    /\ npoly = 0
    /\ use_gridcompress = TRUE
    /\ use_quality = quality(req, npoly, use_gridcompress)
    /\ digits = digitsfor(use_quality)
    /\ qpc = "digits"
    /\ objects \in PoseScenes
    /\ frame_current \in {0, 3}
    /\ objects0 = objects
    /\ frame0 = frame_current
    /\ bones = <<>>
    /\ bidx = 0
    /\ use_animation \in BOOLEAN
    /\ reports = <<>>
    /\ opos = 0
    /\ bpc = "armature"
    /\ groups = <<>>
    /\ skin = <<>>
    /\ sref = -1
    /\ si = -1
    /\ skins = <<>>
    /\ nb_m = 0
    /\ use_skeleton \in (IF use_animation THEN {TRUE} ELSE BOOLEAN)
    /\ nskinned = 0
    /\ use_fps = 25
    /\ use_markers = FALSE
    /\ markers = <<>>
    /\ bpy_actions \in {<<>>, TwoActions, OneFrameAction}
    /\ frame_start = 1
    /\ frame_end = 2
    /\ oldframe = 0
    /\ oldpose = <<>>
    /\ oldaction = Absent
    /\ acts = <<>>
    /\ apos = 0
    /\ frame = 0
    /\ a2 = 0
    /\ lastpose = <<>>
    /\ frames = <<>>
    /\ changed = <<>>
    /\ sampled = <<>>
    /\ lf = 0
    /\ fi_m = 0
    /\ actions = <<>>
    /\ hist = <<>>
    /\ apc = "start"
NextPose ==
    \/ SavePose /\ UNCHANGED <<poolVars, idxVars, qualVars, matVars, fileVars, stampVars>>
    \/ Skeleton /\ UNCHANGED <<poolVars, idxVars, qualVars, matVars, fileVars, stampVars>>
    \/ MeshPart /\ UNCHANGED <<poolVars, idxVars, qualVars, sceneVars, stampVars>>
    \/ MaterialsPart /\ UNCHANGED <<poolVars, idxVars, qualVars, skinVars, gridVars, sceneVars, boneVars, fileVars, stampVars>>
    \/ CollectActions /\ UNCHANGED <<poolVars, idxVars, qualVars, matVars, fileVars, stampVars>>
    \/ StartAction /\ UNCHANGED <<poolVars, idxVars, qualVars, matVars, fileVars, stampVars>>
    \/ \E pss \in ScenePoses(objects) : SampleFrame(pss) /\ UNCHANGED <<poolVars, idxVars, qualVars, matVars, fileVars, stampVars>>
    \/ EndAction /\ UNCHANGED <<poolVars, idxVars, qualVars, matVars, fileVars, stampVars>>
    \/ RestorePose /\ UNCHANGED <<poolVars, idxVars, qualVars, matVars, fileVars, stampVars>>
SpecPose == InitPose /\ [][NextPose]_vars

\* the whole export of a scene to a binary file
InitFile ==
    /\ PoolIdle /\ IdxIdle /\ SkinIdle /\ GridIdle /\ TabIdle /\ StampIdle
    /\ req \in 0..3
    /\ npoly = 0
    /\ use_gridcompress \in BOOLEAN
    /\ use_quality = quality(req, npoly, use_gridcompress)
    /\ digits = digitsfor(use_quality)
    /\ qpc = "digits"
    /\ \E c \in {e \in Exports : e.req = req /\ e.grid = use_gridcompress} :
          /\ objects = c.objects
          /\ use_normals = c.normals
          /\ use_uvs = c.uvs
          /\ use_colors = c.colors
          /\ use_strmcompress = c.strm
          /\ allow_unnormalized_uvs = c.unnorm
          /\ use_materials = c.materials
          /\ bpy_actions = c.actions
          /\ use_author = c.author
    /\ frame_current = 1
    /\ objects0 = objects
    /\ frame0 = frame_current
    /\ bones = <<>>
    /\ bidx = 0
    /\ use_animation = TRUE
    /\ reports = <<>>
    /\ opos = 0
    /\ bpc = "armature"
    /\ refmats = <<>>
    /\ refpos = 0
    /\ props = <<>>
    /\ kd = Absent
    /\ materials = <<>>
    /\ use_name = <<>>
    /\ tmaps = <<>>
    /\ faces = <<>>
    /\ lists = <<>>
    /\ buf = <<>>
    /\ file = <<>>
    /\ use_fps = 25
    /\ use_markers = FALSE
    /\ markers = <<>>
    /\ frame_start = 1
    /\ frame_end = 2
    /\ oldframe = 0
    /\ oldpose = <<>>
    /\ oldaction = Absent
    /\ acts = <<>>
    /\ apos = 0
    /\ frame = 0
    /\ a2 = 0
    /\ lastpose = <<>>
    /\ frames = <<>>
    /\ changed = <<>>
    /\ sampled = <<>>
    /\ lf = 0
    /\ fi_m = 0
    /\ actions = <<>>
    /\ hist = <<>>
    /\ apc = "start"
NextFile ==
    \/ SavePose /\ UNCHANGED <<poolVars, idxVars, qualVars, matVars, fileVars, stampVars>>
    \/ Skeleton /\ UNCHANGED <<poolVars, idxVars, qualVars, matVars, fileVars, stampVars>>
    \/ MeshPart /\ UNCHANGED <<poolVars, idxVars, qualVars, sceneVars, stampVars>>
    \/ MaterialsPart /\ UNCHANGED <<poolVars, idxVars, qualVars, skinVars, gridVars, sceneVars, boneVars, fileVars, stampVars>>
    \/ CollectActions /\ UNCHANGED <<poolVars, idxVars, qualVars, matVars, fileVars, stampVars>>
    \/ StartAction /\ UNCHANGED <<poolVars, idxVars, qualVars, matVars, fileVars, stampVars>>
    \/ \E pss \in ScenePoses(objects) : SampleFrame(pss) /\ UNCHANGED <<poolVars, idxVars, qualVars, matVars, fileVars, stampVars>>
    \/ EndAction /\ UNCHANGED <<poolVars, idxVars, qualVars, matVars, fileVars, stampVars>>
    \/ RestorePose /\ UNCHANGED <<poolVars, idxVars, qualVars, matVars, fileVars, stampVars>>
    \/ ConvertLists /\ UNCHANGED <<poolVars, idxVars, qualVars, skinVars, tabVars, sceneVars, boneVars, matVars, animVars, stampVars>>
    \/ GridCompress /\ UNCHANGED <<poolVars, idxVars, qualVars, skinVars, tabVars, sceneVars, boneVars, matVars, animVars, fileVars, stampVars>>
    \/ \E zl \in 1..MaxDeflate : WriteBinary(zl) /\ UNCHANGED <<poolVars, idxVars, qualVars, skinVars, tabVars, sceneVars, boneVars, matVars, animVars, stampVars>>
SpecFile == InitFile /\ [][NextFile]_vars

\* the export of two meshes without armature: no action is collected and the
\* loop over the actions has no pass
InitMeshes ==
    /\ PoolIdle /\ IdxIdle /\ SkinIdle /\ GridIdle /\ TabIdle /\ StampIdle
    /\ req = 0
    /\ npoly = 0
    /\ use_gridcompress = TRUE
    /\ use_quality = quality(req, npoly, use_gridcompress)
    /\ digits = digitsfor(use_quality)
    /\ qpc = "digits"
    /\ \E c \in MeshExports :
          /\ objects = c.objects
          /\ use_normals = c.normals
          /\ use_uvs = c.uvs
          /\ use_colors = c.colors
          /\ use_strmcompress = c.strm
          /\ allow_unnormalized_uvs = c.unnorm
          /\ use_materials = c.materials
          /\ bpy_actions = c.actions
          /\ use_author = c.author
    /\ frame_current = 1
    /\ objects0 = objects
    /\ frame0 = frame_current
    /\ bones = <<>>
    /\ bidx = 0
    /\ use_animation = TRUE
    /\ reports = <<>>
    /\ opos = 0
    /\ bpc = "armature"
    /\ refmats = <<>>
    /\ refpos = 0
    /\ props = <<>>
    /\ kd = Absent
    /\ materials = <<>>
    /\ use_name = <<>>
    /\ tmaps = <<>>
    /\ faces = <<>>
    /\ lists = <<>>
    /\ buf = <<>>
    /\ file = <<>>
    /\ use_fps = 25
    /\ use_markers = FALSE
    /\ markers = <<>>
    /\ frame_start = 1
    /\ frame_end = 2
    /\ oldframe = 0
    /\ oldpose = <<>>
    /\ oldaction = Absent
    /\ acts = <<>>
    /\ apos = 0
    /\ frame = 0
    /\ a2 = 0
    /\ lastpose = <<>>
    /\ frames = <<>>
    /\ changed = <<>>
    /\ sampled = <<>>
    /\ lf = 0
    /\ fi_m = 0
    /\ actions = <<>>
    /\ hist = <<>>
    /\ apc = "start"
NextMeshes ==
    \/ SavePose /\ UNCHANGED <<poolVars, idxVars, qualVars, matVars, fileVars, stampVars>>
    \/ Skeleton /\ UNCHANGED <<poolVars, idxVars, qualVars, matVars, fileVars, stampVars>>
    \/ MeshPart /\ UNCHANGED <<poolVars, idxVars, qualVars, sceneVars, stampVars>>
    \/ MaterialsPart /\ UNCHANGED <<poolVars, idxVars, qualVars, skinVars, gridVars, sceneVars, boneVars, fileVars, stampVars>>
    \/ CollectActions /\ UNCHANGED <<poolVars, idxVars, qualVars, matVars, fileVars, stampVars>>
    \/ RestorePose /\ UNCHANGED <<poolVars, idxVars, qualVars, matVars, fileVars, stampVars>>
    \/ ConvertLists /\ UNCHANGED <<poolVars, idxVars, qualVars, skinVars, tabVars, sceneVars, boneVars, matVars, animVars, stampVars>>
    \/ GridCompress /\ UNCHANGED <<poolVars, idxVars, qualVars, skinVars, tabVars, sceneVars, boneVars, matVars, animVars, fileVars, stampVars>>
    \/ \E zl \in 1..MaxDeflate : WriteBinary(zl) /\ UNCHANGED <<poolVars, idxVars, qualVars, skinVars, tabVars, sceneVars, boneVars, matVars, animVars, stampVars>>
SpecMeshes == InitMeshes /\ [][NextMeshes]_vars

\* the timestamp of a recorded frame for every frame rate that can be asked for
InitStamp ==
    /\ PoolIdle /\ IdxIdle /\ QualIdle /\ SkinIdle /\ GridIdle /\ TabIdle /\ SceneIdle /\ BoneIdle /\ MatIdle /\ FileIdle
    /\ fps_req \in 0..(MaxFps + 1)
    /\ span = 0
    /\ stamp = <<>>
    /\ tpc = "fps"
    /\ use_fps = fps_req
    /\ use_markers = FALSE
    /\ markers = <<>>
    /\ bpy_actions = <<>>
    /\ frame_start = 1
    /\ frame_end = 2
    /\ oldframe = 0
    /\ oldpose = <<>>
    /\ oldaction = Absent
    /\ acts = <<>>
    /\ apos = 0
    /\ frame = 0
    /\ a2 = 0
    /\ lastpose = <<>>
    /\ frames = <<>>
    /\ changed = <<>>
    /\ sampled = <<>>
    /\ lf = 0
    /\ fi_m = 0
    /\ actions = <<>>
    /\ hist = <<>>
    /\ apc = "start"
NextStamp ==
    \/ ClampFps /\ UNCHANGED <<poolVars, idxVars, qualVars, skinVars, gridVars, tabVars, sceneVars, boneVars, matVars, fileVars>>
    \/ \E n \in 0..MaxSpan : Stamp(n) /\ UNCHANGED <<poolVars, idxVars, qualVars, skinVars, gridVars, tabVars, sceneVars, boneVars, matVars, animVars, fileVars>>
SpecStamp == InitStamp /\ [][NextStamp]_vars

----------------------------------------------------------------------------
(* Claims *)

Seen == {p[1] : p \in first}
FirstIdx(e) == (CHOOSE p \in first : p[1] = e)[2]

\* C1: a uniquedict call with a value interned earlier returns the index
\* returned the first time and leaves the table unchanged, a call with a new
\* value grows the table by exactly one entry, and the table length equals
\* the number of distinct values interned so far.
C1_InternIdempotent ==
    /\ [](Len(pool) = Cardinality(Seen))
    /\ [][ncalls' = ncalls + 1 =>
            LET e == arg'[1]
            IN  IF e \in Seen
                THEN pool' = pool /\ ret' = FirstIdx(e)
                ELSE Len(pool') = Len(pool) + 1]_vars

C1_Witness ==
    /\ ncalls >= 3
    /\ Len(pool) = 2
    /\ ret = 0

\* C2: indices are assigned 0,1,2,... in first-occurrence order with no
\* gaps, and dict2list yields a list whose element at position i is the
\* value that was assigned index i.
C2_IndexOrder ==
    /\ \A k \in 1..Len(pool) : pool[k].v[1] = k - 1
    /\ {p[2] : p \in first} = 0..(Cardinality(first) - 1)
    /\ ppc = "converted" =>
          /\ Len(plist) = Cardinality(first)
          /\ \A p \in first : plist[p[2] + 1] = p[1]

C2_Witness ==
    /\ ppc = "converted"
    /\ Len(plist) >= 3
    /\ ret = 1

\* bytes written for an index at width code f
WidthBytes(f) == Len(addidx(f, 0))

\* C3: the width selector returns the reserved width code for count 0, 1
\* byte for 1 <= count < 254, 2 bytes for 254 <= count < 65534 and 4 bytes
\* for count >= 65534.
C3_IndexWidth ==
    ipc # "count" =>
        /\ cnt = 0 => fmt = 3 /\ WidthBytes(fmt) = 0
        /\ (1 <= cnt /\ cnt < 254) => WidthBytes(fmt) = 1
        /\ (254 <= cnt /\ cnt < 65534) => WidthBytes(fmt) = 2
        /\ cnt >= 65534 => WidthBytes(fmt) = 4
        /\ cnt \in {1, 253} => fmt = 0
        /\ cnt \in {254, 65533} => fmt = 1
        /\ cnt = 65534 => fmt = 2

C3_Witness ==
    /\ ipc = "selected"
    /\ cnt = 65534
    /\ fmt = 2

\* the little-endian bytes of 2^(8w) - 1 - d, for d in {0, 1}
MaxMinus(w, d) == [k \in 1..w |-> IF k = 1 THEN 255 - d ELSE 255]

\* C4: at each index width of 1, 2 or 4 bytes the sentinel -1 is encoded as
\* the maximum unsigned value and -2 as one less, and at the width selected
\* for a table of cnt entries no valid index 0..cnt-1 is encoded like a
\* sentinel.
C4_SentinelsDistinct ==
    (ipc # "count" /\ fmt \in {0, 1, 2}) =>
        LET w == WidthBytes(fmt)
        IN  /\ w \in {1, 2, 4}
            /\ addidx(fmt, -1) = MaxMinus(w, 0)
            /\ addidx(fmt, -2) = MaxMinus(w, 1)
            /\ \A n \in 0..(cnt - 1) :
                  /\ Len(addidx(fmt, n)) = w
                  /\ addidx(fmt, n) # MaxMinus(w, 0)
                  /\ addidx(fmt, n) # MaxMinus(w, 1)
            /\ (ipc = "written" /\ idx = -1) => enc = MaxMinus(w, 0)
            /\ (ipc = "written" /\ idx = -2) => enc = MaxMinus(w, 1)

C4_Witness ==
    /\ ipc = "written"
    /\ cnt = 65535
    /\ idx = -2
    /\ enc = <<254, 255, 255, 255>>

\* C5: the effective tier is the requested tier when it is 0..3, otherwise
\* tier 0 below 1024 counted polygons and tier 1 otherwise; without grid
\* compression the effective tier is raised to at least 2.
C5_EffectiveQuality ==
    qpc # "start" =>
        LET base == IF req \in 0..3 THEN req
                    ELSE IF npoly < 1024 THEN 0 ELSE 1
        IN  /\ use_gridcompress => use_quality = base
            /\ ~use_gridcompress => use_quality = (IF base < 2 THEN 2 ELSE base)
            /\ ~use_gridcompress => use_quality >= 2
            /\ (use_gridcompress /\ req = -1 /\ npoly = 1000) => use_quality = 0
            /\ (use_gridcompress /\ req = -1 /\ npoly = 1025) => use_quality = 1

C5_Witness ==
    /\ qpc = "quality"
    /\ req = -1
    /\ npoly = 1024
    /\ use_gridcompress
    /\ use_quality = 1

\* C6: the rounding digits are 4, 4, 7, 15 for the effective tiers 0, 1, 2, 3.
C6_DigitsByTier ==
    qpc = "digits" =>
        digits = (CASE use_quality = 0 -> 4
                    [] use_quality = 1 -> 4
                    [] use_quality = 2 -> 7
                    [] use_quality = 3 -> 15)

\* the byte weights of the skin list
SkinWeights(sk) == [k \in 1..(Len(sk) \div 2) |-> Val(sk[2 * k])]
RECURSIVE SumSeq(_)
SumSeq(q) == IF q = <<>> THEN 0 ELSE Head(q) + SumSeq(Tail(q))

\* C7: for a vertex whose raw weights have a positive sum and whose groups
\* all match bones, the skin has one weight per influence, each in 1..255,
\* and the weights sum to 255.
C7_SkinWeights ==
    (/\ nskinned > 0
     /\ sref # -1
     /\ SumWeights(groups) > 0
     /\ \A k \in 1..Len(groups) : groups[k].bone # NoBone) =>
        /\ Len(skin) = 2 * Len(groups)
        /\ \A k \in 1..Len(groups) : SkinWeights(skin)[k] \in 1..255
        /\ SumSeq(SkinWeights(skin)) = 255

\* the pooled position-kind vertices, before grid compression
Positions == {k \in 1..Len(vdict) : Val(vdict[k].v[2][6]) # -2}

\* C8: with grid compression enabled, after the normalization step every
\* position-kind vertex (skinRef != -2) has |x|, |y| and |z| <= 1.0.
C8_GridBounded ==
    (gpc \in {"scaled", "written"} /\ use_gridcompress) =>
        \A k \in 1..Len(verts) :
            Val(verts[k][6]) # -2 =>
                \A a \in 1..3 : verts[k][a].mag <= Unit(digits)

C8_Witness ==
    /\ gpc = "scaled"
    /\ use_gridcompress
    /\ \E k \in Positions : vdict[k].v[2][1] = F(-1, 10 * Unit(digits))
    /\ \E k \in 1..Len(verts) : verts[k][1] = F(-1, Unit(digits))

\* C9 as claimed: with grid compression enabled and no explicit scale
\* requested, the declared scale equals the computed factor s.
C9_ScaleIsFactor ==
    (gpc = "written" /\ use_gridcompress /\ Val(scale_req) <= 0) =>
        declared = sfac

\* largest absolute x, y or z coordinate over the pooled position-kind
\* vertices, before grid compression (0 when there is none)
PosMaxAbs ==
    LET mags == {vdict[k].v[2][a].mag : k \in Positions, a \in 1..3} \cup {0}
    IN  CHOOSE m \in mags : \A n \in mags : n <= m

\* C9 as amended: with grid compression enabled and no explicit scale
\* requested, the declared scale equals the computed factor s (10.0 when
\* the largest absolute position coordinate is 10.0), unless s is 0, where
\* the declared scale is 1.0.
C9_ScaleIsFactorOrOne ==
    (gpc = "written" /\ use_gridcompress /\ Val(scale_req) <= 0) =>
        /\ sfac # <<>>
        /\ sfac[1].mag # 0 => declared = sfac
        /\ sfac[1].mag = 0 => declared = <<F(1, Unit(digits))>>
        /\ PosMaxAbs = 10 * Unit(digits) => declared = <<F(1, 10 * Unit(digits))>>

C9_Witness ==
    /\ gpc = "written"
    /\ use_gridcompress
    /\ Val(scale_req) <= 0
    /\ PosMaxAbs = 10 * Unit(digits)
    /\ declared = <<F(1, 10 * Unit(digits))>>

\* C10: no x, y, z or w component of a vertex of the emitted vertex table
\* is negative zero.
C10_NoNegativeZero ==
    gpc = "written" =>
        \A k \in 1..Len(vrts) : \A a \in 1..4 :
            ~(vrts[k][a].neg /\ vrts[k][a].mag = 0)
\* the index in strs of a name, -1 when the name is not pooled
StrIndex(n) ==
    LET k == FindKey(strs, hash(str(n)), 1) IN IF k = 0 THEN -1 ELSE strs[k].v[1]

\* the value of props[key] as <<value>>, <<>> when the key is not set
PropOf(ps, key) ==
    LET k == FindProp(ps, key, 1) IN IF k = 0 THEN <<>> ELSE <<ps[k][2]>>

\* the material last gone through
LastMat == refmats[refpos]

\* specular is 0 and every other property is zero or at its default
PlainMaterial(m) ==
    /\ m # NoMat
    /\ m.specular.mag = 0
    /\ m.metallic.mag = 0
    /\ m.alpha = Tenths(10)
    /\ Len(m.base_color) = 3
    /\ m.node_image = Absent
    /\ m.base_color_texture = <<>>

\* C11: a referenced material with specular = 0 and every other property at
\* its default or zero value emits no property and is dropped from the
\* materials list; a material is in the list only with at least one property.
C11_PlainMaterialDropped ==
    /\ \A j \in 1..Len(materials) : Len(materials[j].props) > 0
    /\ (refpos > 0 /\ PlainMaterial(LastMat)) =>
            /\ props = <<>>
            /\ \A j \in 1..Len(materials) : materials[j].name # StrIndex(safestr(LastMat.name))

\* the decision table of the illumination model over specular, metallic and alpha
IlluminationTable(m) ==
    IF m.specular.mag = 0 THEN 1
    ELSE IF m.metallic.mag # 0 THEN (IF m.alpha # Tenths(10) THEN 6 ELSE 3)
    ELSE IF m.alpha # Tenths(10) THEN 9
    ELSE 2

\* C12: the illumination byte (property 8) of a material is 1 if specular is
\* 0; otherwise 6 (alpha # 1) or 3 (alpha = 1) if metallic is non-zero;
\* otherwise 9 (alpha # 1) or 2 (alpha = 1).
C12_IlluminationTable ==
    (refpos > 0 /\ LastMat # NoMat) => PropOf(props, 8) = <<I(IlluminationTable(LastMat))>>

\* the entry of bone idx in a changed list, as a set
DeltaOf(ch, i) == {ch[k] : k \in {j \in 1..Len(ch) : ch[j].idx = i}}

\* the poses of the example: bone 2 turned, bone 1 in bind pose
OnlyBMoved == <<<<[p |-> BonePos(1), q |-> BoneQuat], [p |-> BonePos(2), q |-> TurnedQuat]>>>>
AllBind == <<<<[p |-> BonePos(1), q |-> BoneQuat], [p |-> BonePos(2), q |-> BoneQuat]>>>>
ExampleHist == <<AllBind, AllBind, OnlyBMoved, OnlyBMoved, OnlyBMoved>>

\* C13: within one action, starting from the bind pose, a bone is in the
\* delta list of a sampled frame exactly when its (position, orientation)
\* references differ from its last recorded pose; recording updates the last
\* recorded pose; a frame without a changed bone is not recorded.  Two bones
\* sampled over 5 frames where only the second changes at the third frame give
\* one recorded frame holding the second bone only.
C13_DeltaMinimal ==
    /\ [][(apc = "frames" /\ apc' = "frames" /\ frame' = frame + 1) =>
            /\ \A k \in 1..Len(sampled') :
                LET s == sampled'[k]
                    moved == lastpose[k].pos # s.pos \/ lastpose[k].ori # s.ori
                IN  /\ DeltaOf(changed', s.idx) = IF moved THEN {s} ELSE {}
                    /\ lastpose'[k] = IF moved THEN [pos |-> s.pos, ori |-> s.ori]
                                      ELSE lastpose[k]
            /\ Len(changed') <= Len(sampled')
            /\ frames' = IF changed' = <<>> THEN frames
                         ELSE Append(frames, [t |-> frames'[Len(frames')].t, changed |-> changed'])
       ]_vars
    /\ [](apc = "actions" /\ apos > 0 /\ hist = ExampleHist =>
            /\ Len(actions) = apos
            /\ Len(actions[apos].frames) = 1
            /\ actions[apos].frames[1].t = 0
            /\ Len(actions[apos].frames[1].changed) = 1
            /\ actions[apos].frames[1].changed[1].idx = 1)

C13_Witness ==
    /\ apc = "actions"
    /\ hist = ExampleHist
    /\ Len(actions) = 1
    /\ Len(actions[1].frames) = 1

\* pack("<I", n) read back at position p
le32(bs, p) == bs[p] + 256 * bs[p + 1] + 65536 * bs[p + 2] + 16777216 * bs[p + 3]

\* a reader going from chunk to chunk by the length fields, from position p
\* to the end marker: the chunks met and the position of the marker (0 when
\* the reader runs off the stream)
RECURSIVE Walk(_, _, _)
Walk(bs, p, acc) ==
    IF p + 3 <= Len(bs) /\ SubSeq(bs, p, p + 3) = ChunkOMD3 THEN [chunks |-> acc, end |-> p]
    ELSE IF p + 7 > Len(bs) THEN [chunks |-> acc, end |-> 0]
    ELSE IF le32(bs, p + 4) < 8 THEN [chunks |-> acc, end |-> 0]
    ELSE Walk(bs, p + le32(bs, p + 4),
              Append(acc, [tag |-> SubSeq(bs, p, p + 3), len |-> le32(bs, p + 4)]))

CountTag(w, tag) == Cardinality({k \in 1..Len(w.chunks) : w.chunks[k].tag = tag})

IdxWidth(f) == IF f = 0 THEN 1 ELSE IF f = 1 THEN 2 ELSE IF f = 2 THEN 4 ELSE 0

\* the number of vertices the VRTS chunks of w hold; -1 when a chunk is no
\* whole number of vertex records
VrtsCount(w) ==
    LET H == header(FileLists)
        rec == 4 * (2 ^ use_quality) + IdxWidth(H.ci_s) + IdxWidth(H.sk_s)
        ks == {k \in 1..Len(w.chunks) : w.chunks[k].tag = ChunkVRTS}
    IN  IF \E k \in ks : (w.chunks[k].len - 8) % rec # 0 THEN -1
        ELSE IF ks = {} THEN 0
        ELSE LET k == CHOOSE j \in ks : TRUE IN (w.chunks[k].len - 8) \div rec

\* a single triangle with a single material and no skeleton was exported in
\* binary at tier 0 with grid compression
SingleTriangle ==
    /\ gpc \in {"written", "raised"}
    /\ objects0 \in {<<m>> : m \in OneTriangle}
    /\ use_quality = 0
    /\ use_gridcompress

\* the chunks of the stream bs are one HEAD, one VRTS, one MTRL and one MESH
\* (and others), up to an end marker that closes bs
OneOfEach(bs) ==
    LET w == Walk(bs, 1, <<>>)
    IN  /\ w.end # 0
        /\ w.end = Len(bs) - 3
        /\ CountTag(w, ChunkHEAD) = 1
        /\ CountTag(w, ChunkVRTS) = 1
        /\ CountTag(w, ChunkMTRL) = 1
        /\ CountTag(w, ChunkMESH) = 1

WrittenChunks == chunklist(FileLists)

\* C15: in the chunk stream of a binary file every chunk's length field is 8
\* plus the payload bytes written for it, CMAP and TMAP included, so that a
\* reader going by the length fields meets every chunk and lands on the final
\* OMD3 marker; the file's length field is 8 plus the size of the buffer
\* written after it, compressed or not.
C15_ChunkLengths ==
    gpc = "written" =>
        /\ \A k \in 1..Len(WrittenChunks) : le32(WrittenChunks[k], 5) = Len(WrittenChunks[k])
        /\ Walk(buf, 1, <<>>).end = Len(buf) - 3
        /\ Len(Walk(buf, 1, <<>>).chunks) = Len(WrittenChunks)
        /\ \A k \in 1..Len(WrittenChunks) :
                Walk(buf, 1, <<>>).chunks[k].tag = SubSeq(WrittenChunks[k], 1, 4)
        /\ le32(file, 5) = 8 + Len(SubSeq(file, 9, Len(file)))
        /\ SubSeq(file, 9, Len(file)) \in {buf} \cup {compress(buf, zl) : zl \in 1..MaxDeflate}

C15_Witness ==
    /\ gpc = "written"
    /\ use_strmcompress
    /\ use_quality = 3
    /\ \E k \in 1..Len(WrittenChunks) : SubSeq(WrittenChunks[k], 1, 4) = ChunkCMAP
    /\ \E k \in 1..Len(WrittenChunks) : SubSeq(WrittenChunks[k], 1, 4) = ChunkTMAP
    /\ \E k \in 1..Len(WrittenChunks) : SubSeq(WrittenChunks[k], 1, 4) = ChunkMTRL

InTable(i, n) == i >= 0 /\ i < n

\* C16: every index the writers emit that is no sentinel lies within the
\* table it refers to: face vertex and normal refs and the position and
\* orientation refs of bones and action deltas within the vertices, face UV
\* refs within the UVs, vertex colour refs within the colours, vertex skin
\* refs within the skins, the bone indices of skins and action deltas within
\* the bones.
C16_RefsInBounds ==
    gpc # "mesh" =>
        /\ \A k \in 1..Len(faces) : \A i \in 1..3 :
            /\ InTable(faces[k].v[i], Len(verts))
            /\ faces[k].n[i] = -1 \/ InTable(faces[k].n[i], Len(verts))
            /\ faces[k].t[i] = -1 \/ InTable(faces[k].t[i], Len(lists.tmaps))
        /\ \A k \in 1..Len(verts) :
            \* the colour ref is written when there are colours
            /\ lists.cmap = <<>> \/ InTable(Val(verts[k][5]), Len(lists.cmap))
            /\ Val(verts[k][6]) \in {-1, -2} \/ InTable(Val(verts[k][6]), Len(lists.skins))
        /\ \A k \in 1..Len(lists.skins) : \A i \in 1..(Len(lists.skins[k]) \div 2) :
            InTable(Val(lists.skins[k][2 * i - 1]), Len(lists.bones))
        /\ \A k \in 1..Len(lists.bones) :
            /\ InTable(lists.bones[k].pos, Len(verts))
            /\ InTable(lists.bones[k].ori, Len(verts))
        /\ \A k \in 1..Len(actions) : \A j \in 1..Len(actions[k].frames) :
            \A i \in 1..Len(actions[k].frames[j].changed) :
                LET t == actions[k].frames[j].changed[i]
                IN  /\ InTable(t.idx, Len(lists.bones))
                    /\ InTable(t.pos, Len(verts))
                    /\ InTable(t.ori, Len(verts))

C16_Witness ==
    /\ gpc = "written"
    /\ use_normals
    /\ Len(lists.skins) > 1
    /\ Len(lists.bones) > 1
    /\ Len(actions) > 0
    /\ \E k \in 1..Len(verts) : Val(verts[k][6]) >= 0

\* the pose state of the scene is what it was when the export began
PoseStateKept ==
    /\ frame_current = frame0
    /\ \A k \in 1..Len(objects) :
        /\ objects[k].pose_position = objects0[k].pose_position
        /\ objects[k].animation_data = objects0[k].animation_data

\* C17: after an export that runs to completion the scene's current frame and
\* every armature's pose position and own active action (also 'no action')
\* are what they were before the export.
C17_PoseRestored == apc = "restored" => PoseStateKept

\* C18: the saved pose state is restored on every exit path: an export that
\* stops early after the armatures were switched to rest pose does not leave
\* a modified pose position, action or current frame.
C18_PoseRestoredOnFailure == apc = "raised" => PoseStateKept

\* the bone table of the output
BoneTable == dict2list([k \in 1..Len(bones) |->
                [h |-> k, v |-> <<bones[k].idx, bones[k]>>]])

\* C19: when two bones produce the same sanitized name, an error is reported
\* and skeleton and animation are disabled for the run: at the end of the
\* armature part the bone table is empty, whatever the armatures and their order.
C19_CollisionEmptiesBones ==
    (bpc = "mesh" /\ \E k \in 1..Len(reports) : reports[k] = NotUnique) =>
        /\ ~use_skeleton
        /\ ~use_animation
        /\ bones = <<>>

\* C20: when a vertex-group name of a vertex matches no bone, the skeleton is
\* disabled for the run: no skin-weight set is pooled, complete or not, and
\* the vertex that met the error carries no skin reference.
C20_MismatchLeavesNoSkin ==
    ~use_skeleton => (skins = <<>> /\ sref = -1)

\* the reference of the name n in the strs dict, -1 when it has none
NameRef(n) ==
    IF \E k \in 1..Len(strs) : strs[k].v[2] = n
    THEN (CHOOSE e \in {strs[k] : k \in 1..Len(strs)} : e.v[2] = n).v[1]
    ELSE -1

\* the material reference a polygon of the mesh ob is due: that of the slot
\* of its index, of slot 0 when the index is beyond the slots
DueRef(ob, poly) ==
    IF use_materials /\ Len(ob.materials) > 0
    THEN LET mt == ob.materials[IF poly.material_index < Len(ob.materials)
                                THEN poly.material_index + 1 ELSE 1]
         IN  IF mt = NoMat \/ mt.name = <<>> THEN -1 ELSE NameRef(safestr(mt.name))
    ELSE -1

\* the bad material indices of the polygons of the mesh ob
BadIndices(ob) ==
    IF ob.type = "MESH" /\ use_materials /\ Len(ob.materials) > 0
    THEN {ob.polygons[k].material_index : k \in 1..Len(ob.polygons)}
            \ (0..(Len(ob.materials) - 1))
    ELSE {}

RECURSIVE SumBad(_, _)
SumBad(objs, k) ==
    IF k > Len(objs) THEN 0 ELSE Cardinality(BadIndices(objs[k])) + SumBad(objs, k + 1)

BadReports == Cardinality({k \in 1..Len(reports) : reports[k] = BadMaterial})

\* the polygons of the scene that are due the reference r, and the faces that carry it
DuePolys(r) ==
    {<<o, k>> \in (1..Len(objects)) \X (1..MaxPolys + 1) :
        /\ objects[o].type = "MESH"
        /\ k <= Len(objects[o].polygons)
        /\ DueRef(objects[o], objects[o].polygons[k]) = r}
FacesOf(r) == {k \in 1..Len(faces) : faces[k].m = r}

MeshDone == apc \notin {"start", "saved", "ready"}

\* C21 (as stated): every polygon with a material index beyond the slots
\* carries the material of slot 0, and the number of reports of a bad index
\* is the number of distinct bad indices of the whole scene.
C21_ReportedOnce ==
    MeshDone =>
        /\ \A r \in {-1} \cup {strs[k].v[1] : k \in 1..Len(strs)} :
                Cardinality(FacesOf(r)) = Cardinality(DuePolys(r))
        /\ BadReports = Cardinality(UNION {BadIndices(objects[o]) : o \in 1..Len(objects)})

\* C21 (amended): every polygon with a material index beyond the slots
\* carries the material of slot 0, and every mesh reports each of its
\* distinct bad indices once: the number of reports is the sum, over the
\* meshes, of the number of distinct bad indices of the mesh.
C21_ReportedOncePerMesh ==
    MeshDone =>
        /\ \A r \in {-1} \cup {strs[k].v[1] : k \in 1..Len(strs)} :
                Cardinality(FacesOf(r)) = Cardinality(DuePolys(r))
        /\ BadReports = SumBad(objects, 1)

\* a mesh with two polygons of one bad index and a further mesh with the
\* same bad index have been gone through
C21_Witness ==
    /\ MeshDone
    /\ use_materials
    /\ \E o \in 1..Len(objects) :
        /\ Cardinality(BadIndices(objects[o])) = 1
        /\ \A k \in 1..Len(objects[o].polygons) :
                objects[o].polygons[k].material_index \in BadIndices(objects[o])
        /\ \E o2 \in 1..Len(objects) : o2 # o /\ BadIndices(objects[o2]) = BadIndices(objects[o])
    /\ BadReports = 2

\* C22: the grid-compression factor s is the largest absolute x, y or z
\* coordinate over the position-kind pooled vertices only (skinRef # -2):
\* whenever there is a position-kind vertex, the components of the pooled
\* orientation quaternions have no part in s.
C22_FactorFromPositions ==
    (gpc \in {"scaled", "written"} /\ use_gridcompress /\ Positions # {}) =>
        sfac = <<F(1, PosMaxAbs)>>

\* the bones of the armatures of the scene
SceneBones ==
    UNION {{objects[o].bones[k] : k \in 1..Len(objects[o].bones)} : o \in 1..Len(objects)}

\* C23: the parent field of every bone of the emitted bone table is -1 for
\* a bone without parent, and otherwise the sequential index handed to its
\* parent bone, which is smaller than the bone's own index; this holds when
\* several armatures are exported together.
C23_ParentIsTableIndex ==
    (gpc = "written" /\ \A r \in 1..Len(reports) : reports[r] # NotUnique) =>
        \A k \in 1..Len(lists.bones) :
            LET b == lists.bones[k]
                sb == CHOOSE x \in SceneBones : x.name = b.name
            IN  IF sb.parent = Absent THEN b.a = -1
                ELSE /\ b.a >= 0
                     /\ b.a < k - 1
                     /\ lists.bones[b.a + 1].name = sb.parent[1]

\* C24: the timestamp of a recorded frame is trunc(n * 1000 / fps), where n
\* is the number of frames between it and the first recorded frame of the
\* action, for every frame rate fps in 1..120.
C24_Timestamp ==
    tpc = "done" => stamp = <<(span * 1000) \div use_fps>>

\* the faces as the mesh part appends them, before they are sorted
AppendedFaces ==
    MeshLoop(objects, 1,
             [cmap |-> cmap, skins |-> skins, verts |-> vdict, tmaps |-> tmaps,
              nb_m |-> nb_m, si |-> si, use_skeleton |-> use_skeleton,
              reports |-> reports, c |-> 0, s |-> -1, face |-> NoFace,
              refmats |-> refmats, faces |-> faces, badref |-> {}, strs |-> strs,
              use_name |-> use_name],
             use_normals, use_uvs, use_colors, use_materials, use_animation).faces

OfMaterial(fs, r) == SelectSeq(fs, LAMBDA f : f.m = r)

\* a little-endian index of w bytes read back at position p
leidx(bs, p, w) ==
    IF w = 0 THEN 0
    ELSE IF w = 1 THEN bs[p]
    ELSE IF w = 2 THEN bs[p] + 256 * bs[p + 1]
    ELSE le32(bs, p)

\* a reader of the payload of the MESH chunk from position p: the string
\* offset of every material-change marker and -1 for every face record, in
\* the order of the payload; sw: the bytes of a string offset, fw: the bytes
\* of the references of a face
RECURSIVE MeshItems(_, _, _, _, _)
MeshItems(bs, p, sw, fw, acc) ==
    IF p > Len(bs) THEN acc
    ELSE IF bs[p] = 0
    THEN MeshItems(bs, p + 1 + sw, sw, fw, Append(acc, leidx(bs, p + 1, sw)))
    ELSE MeshItems(bs, p + 1 + fw, sw, fw, Append(acc, -1))

\* the items of the MESH chunk of the written stream (none without the chunk)
WrittenMeshItems ==
    LET H == header(FileLists)
        ks == {k \in 1..Len(WrittenChunks) : SubSeq(WrittenChunks[k], 1, 4) = ChunkMESH}
        fw == 3 * (IdxWidth(H.vi_s) + (IF use_uvs THEN IdxWidth(H.ti_s) ELSE 0)
                    + (IF use_normals THEN IdxWidth(H.vi_s) ELSE 0))
    IN  IF ks = {} THEN <<>>
        ELSE LET ch == WrittenChunks[CHOOSE k \in ks : TRUE]
             IN  MeshItems(SubSeq(ch, 9, Len(ch)), 1, IdxWidth(H.si_s), fw, <<>>)

\* position of the j-th face record among the items
RECURSIVE FaceItem(_, _, _)
FaceItem(items, j, p) ==
    IF p > Len(items) THEN 0
    ELSE IF items[p] = -1 THEN (IF j = 1 THEN p ELSE FaceItem(items, j - 1, p + 1))
    ELSE FaceItem(items, j, p + 1)

UsedRefs == {faces[k].m : k \in 1..Len(faces)} \ {-1}
FirstOf(r) == CHOOSE k \in 1..Len(faces) : faces[k].m = r /\ \A j \in 1..(k - 1) : faces[j].m # r

MarkersInPlace(items) ==
    LET H == header(FileLists)
        markers_ == {p \in 1..Len(items) : items[p] # -1}
    IN  /\ Cardinality({p \in 1..Len(items) : items[p] = -1}) = Len(faces)
        /\ Cardinality(markers_) = Cardinality(UsedRefs)
        /\ \A r \in UsedRefs :
            LET fp == FaceItem(items, FirstOf(r), 1)
            IN  /\ fp > 1
                /\ items[fp - 1] = H.stridx[r + 1]
                /\ \A p \in markers_ : items[p] = H.stridx[r + 1] => p = fp - 1
        /\ \A k \in 1..Len(faces) : faces[k].m = -1 => items[k] = -1

\* C25: the sort of the faces is a stable grouping: the faces of one
\* material reference are contiguous, in ascending order of the reference
\* with the faces without material (-1) first, and keep the order in which
\* they were appended; in the MESH chunk written every material reference
\* used by a face has exactly one material-change marker, right before the
\* first face of its run, and the faces without material have none.
C25_GroupedFaces ==
    /\ [][(apc = "ready" /\ apc' = "meshed") =>
            /\ Len(faces') = Len(AppendedFaces)
            /\ \A k \in 1..(Len(faces') - 1) : faces'[k].m <= faces'[k + 1].m
            /\ \A r \in {AppendedFaces[k].m : k \in 1..Len(AppendedFaces)} :
                    OfMaterial(faces', r) = OfMaterial(AppendedFaces, r)]_vars
    /\ [](gpc = "written" => MarkersInPlace(WrittenMeshItems))

\* a file was written whose faces were appended in an order that the sort
\* had to change, with two faces of one material apart from each other, a
\* face without material and two materials in use
C25_Witness ==
    /\ gpc = "written"
    /\ Cardinality(UsedRefs) = 2
    /\ \E k \in 1..Len(faces) : faces[k].m = -1
    /\ \E r \in UsedRefs : Len(OfMaterial(faces, r)) >= 2
    /\ Len(faces) = 2 * MaxPolys
    /\ Cardinality({faces[k] : k \in 1..Len(faces)}) = Len(faces)

\* C26: once the pooled tables have been converted to lists, no later step
\* changes an entry: after grid compression and after the writer the vertex
\* list is what the conversion made of the pooled vertices.
C26_ListsKept ==
    gpc \in {"scaled", "written"} => verts = dict2list(vdict)

\* C27: no two entries of the emitted vertex table have identical
\* (x, y, z, w, colorRef, skinRef) content, also after grid compression has
\* divided and re-rounded the positions.
C27_NoDuplicates ==
    gpc \in {"scaled", "written"} =>
        \A i, j \in 1..Len(verts) : verts[i] = verts[j] => i = j

\* C28: the property records of every material of the materials list are in
\* ascending order of the property code, each code at most once, whether the
\* texture was found by the scan of the node tree or through the wrapped
\* shader properties.
C28_PropsAscending ==
    \A k \in 1..Len(materials) :
        \A i, j \in 1..Len(materials[k].props) :
            i < j => materials[k].props[i][1] < materials[k].props[j][1]

\* the whole-timeline entries of the list of actions to sample
Fallbacks == {k \in 1..Len(acts) : acts[k].name = AnimName /\ acts[k].index = -1}

\* C29: the whole-timeline action 'Anim' is in the list of actions to sample
\* only when nothing else was collected: a list that holds a collected action
\* or marker range holds no 'Anim' entry in addition to it.
C29_FallbackAlone == Fallbacks # {} => Len(acts) = 1

\* no vertex of the export has a colour of its own: vertex colours are
\* switched off, or no mesh has a colour layer
NoVertexColors ==
    ~use_colors \/ \A k \in 1..Len(objects) : objects[k].type = "MESH" => ~objects[k].colors

\* C30: when vertex colours are absent or disabled, no entry of the written
\* vertex list carries the index of a pooled colour.
C30_NoColourRef ==
    gpc = "written" /\ NoVertexColors =>
        \A k \in 1..Len(verts) : ~InTable(Val(verts[k][5]), Len(lists.cmap))

====
